---------------------------- MODULE Spec2Model ----------------------------
(***************************************************************************)
(* A model of the TestRail -> Qase migration engine.                       *)
(*                                                                         *)
(* The module holds several specifications over disjoint groups of         *)
(* variables, one per subsystem:                                           *)
(*   Spec        the orchestrator (TestRailImporterSync / TestRailImporter)*)
(*   SpecFields  the custom-field reconciler's enum mapping                *)
(*   SpecCases   Cases._prepare_case and the mapping store                 *)
(*   SpecPages   the case pagination loop of one suite                     *)
(*   SpecLimiter RateLimiter.wait_if_needed under concurrent callers       *)
(*   SpecRequest TestrailApiClient.send_request and its retries            *)
(*   SpecText    format_links_as_markdown applied repeatedly               *)
(*   SpecSync    the run-sync script's mapping cascade                     *)
(*   SpecRepl    Attachments.replace_attachments and its failover          *)
(*   SpecList    TestrailService.get_attachments_list                      *)
(*   SpecResults the system-enum maps and send_bulk_results                *)
(* A specification leaves the variables of the other subsystems parked at  *)
(* a fixed value.                                                          *)
(***************************************************************************)
EXTENDS Integers, Sequences, FiniteSets, TLC

VARIABLES
    \* ---- orchestrator ----
    sync,            \* config 'sync': TRUE = TestRailImporterSync, FALSE = TestRailImporter
    users_migrate,   \* config 'users.migrate' is not False
    pc,              \* position of start()
    active,          \* the global phase that has begun and not yet returned
    begun,           \* global phases in the order they began
    returned,        \* global phases in the order they returned
    projects,        \* mappings.projects (a list, filled by the projects phase)
    attTasks,        \* import_raw_attachment tasks of the TaskGroup still running
    attachments_map, \* keys of mappings.attachments_map
    fieldTasks,      \* _create_custom_field tasks of the TaskGroup still running
    custom_fields,   \* keys of mappings.custom_fields written by the reconciler
    projAt,          \* per project: 0 not started, i in 1..6 executing SubPhases[i], 7 returned
    projFailed,      \* per project: import_project_data raised
    projLog,         \* per project: the sub-phases that were executed and returned
    \* ---- rate limiter ----
    requests_per_minute, \* RateLimiter.requests_per_minute
    clock,           \* time.monotonic(), in seconds
    last_request_time,   \* RateLimiter.last_request_time
    lockHolder,      \* the thread inside 'with self._lock', 0 when the lock is free
    thPc,            \* per thread: its position in wait_if_needed
    current_time,    \* per thread: the local current_time
    wakeAt,          \* per thread: the instant its time.sleep may return
    grants,          \* the values written to last_request_time, in order
    \* ---- case pagination of one suite ----
    enterprise,      \* config 'qase.enterprise'
    total,           \* the number of cases the source holds for the suite
    offset,          \* import_cases_for_suite: offset
    pgPc,            \* "loop" while the while-loop runs, "done" after break
    requested,       \* the offsets passed to testrail.get_cases, in order
    sizes,           \* per request: cases['size'], or -1 when the fetch raised
    counts,          \* per request: the value process_cases returned
    submitted,       \* the offsets whose page was accepted by qase.create_cases
    \* ---- field reconciliation and case preparation ----
    preserve_ids,    \* config 'tests.preserve_ids'
    refs_enable,     \* config 'tests.refs.enable'
    field,           \* the source case field the reconciler processes
    qase_fields,     \* qase_custom_fields: the target's fields loaded before the run
    fPc,             \* position of import_fields_async, "done" once it returned
    mWork,           \* (configuration, project) pairs the per-project loops still visit
    mappings_custom_fields, \* mappings.custom_fields: key -> field descriptor
    refs_id,         \* mappings.refs_id, 0 for None
    has_original_id, \* hasattr(mappings, 'testrail_original_id_field_id')
    testrail_original_id_field_id, \* mappings.testrail_original_id_field_id
    has_estimate,    \* hasattr(mappings, 'estimate_field_id')
    estimate_field_id,   \* mappings.estimate_field_id
    next_qase_id,    \* the id the target gives to the next field it creates
    source_cases,    \* the cases testrail.get_cases returns for the projects
    case_id_mapping, \* mappings.case_id_mapping
    lastCase,        \* the source case and project, when the last call was _prepare_case
    lastPayload,     \* the payload it appended to its page
    lastLookup,      \* the argument and result, when the last call was get_qase_case_id
    qase_target,     \* the custom fields the target holds: id -> field
    lastUpdate,      \* the last call of update_custom_field: the field read, the payload
    \* ---- TestrailApiClient.send_request ----
    max_retries,     \* self.max_retries
    rate,            \* the requests_per_minute of self.rate_limiter
    rqPc,            \* "loop" while send_request runs, then how it ended
    attempt,         \* the loop variable
    outcomes,        \* what request_method gave, per iteration
    slept,           \* the arguments of time.sleep, in order
    \* ---- format_links_as_markdown ----
    text,            \* the text, as a sequence of tokens
    passes,          \* how many times the formatter was applied to it
    \* ---- the run-sync script ----
    CF_SOURCE,       \* the environment's CF_SOURCE
    cases_a,         \* the cases of project A
    cases_b,         \* the cases of project B
    http_errors,     \* the projects whose case listing raises HTTPError
    syPc,            \* position of sync_run_results
    steps,           \* the mapping steps attempted, in order
    mapping,         \* the B->A case mapping
    synced,          \* sync_run_results: synced
    skipped,         \* sync_run_results: skipped (the B case ids)
    \* ---- Attachments.replace_attachments and replace_failover ----
    mappings_attachments_map, \* mappings.attachments_map: attachment id -> the uploaded attachment
    job,             \* per thread: the call it makes, on a string or on an array of ids
    rpPc,            \* per thread: its position in the call
    string,          \* per thread: the local 'string'
    matches,         \* per thread: the attachment ids the loop still visits
    qase_attachment, \* per thread: what upload_attachment returned in replace_failover, 0 for none
    result,          \* per thread: the hashes check_and_replace_attachments_array collected
    map_before,      \* per thread: the keys of attachments_map when its call began
    uploads,         \* the uploads replace_failover performed, in order: attachment id and thread
    \* ---- TestrailApiClient.get_attachments_list ----
    source_pages,    \* the number of pages of the source's attachment index that hold records
    alPc,            \* position of get_attachments_list
    fetched,         \* the offsets passed to fetch_data, in the order of submission (in pages)
    fetch_results,   \* per submitted future: pending, or what fetch_data returned
    futures,         \* the list 'futures': the submitted futures not yet removed
    batch,           \* the futures as_completed(futures) still has to yield
    stop,            \* the local 'stop'
    next_offset,     \* the local 'next_offset' (in pages)
    attachments,     \* the local 'attachments': the page of each record, in order
    submitted_at_no_data, \* the number of submissions when a result without data was first handled, -1 before
    \* ---- system enums and run results ----
    system_fields,   \* the options of the target's system fields priority, type and result_status
    maps_built,      \* the maps the tasks of import_fields_async have built
    mappings_types,  \* mappings.types
    mappings_priorities, \* mappings.priorities
    mappings_default_priority, \* mappings.default_priority
    mappings_result_statuses, \* mappings.result_statuses
    lastSet,         \* the case and the values, when the last call was _set_priority and _set_type
    tr_run,          \* the source run of the last call of send_bulk_results
    results,         \* its argument 'results'
    res              \* the list 'res' it handed to the bulk API, None when it called nothing

orchVars == <<sync, users_migrate, pc, active, begun, returned, projects, attTasks,
              attachments_map, fieldTasks, custom_fields, projAt, projFailed, projLog>>

limVars == <<requests_per_minute, clock, last_request_time, lockHolder, thPc,
             current_time, wakeAt, grants>>

pageVars == <<enterprise, total, offset, pgPc, requested, sizes, counts, submitted>>

importVars == <<preserve_ids, refs_enable, field, qase_fields, fPc, mWork,
               mappings_custom_fields, refs_id, has_original_id,
               testrail_original_id_field_id, has_estimate, estimate_field_id,
               next_qase_id, source_cases, case_id_mapping, lastCase, lastPayload,
               lastLookup, qase_target, lastUpdate>>

reqVars == <<max_retries, rate, rqPc, attempt, outcomes, slept>>

textVars == <<text, passes>>

syncVars == <<CF_SOURCE, cases_a, cases_b, http_errors, syPc, steps, mapping, synced, skipped>>

replVars == <<mappings_attachments_map, job, rpPc, string, matches, qase_attachment, result, map_before, uploads>>

listVars == <<source_pages, alPc, fetched, fetch_results, futures, batch, stop, next_offset, attachments, submitted_at_no_data>>

resVars == <<system_fields, maps_built, mappings_types, mappings_priorities, mappings_default_priority, mappings_result_statuses, lastSet, tr_run, results, res>>

vars == <<orchVars, limVars, pageVars, importVars, reqVars, textVars, syncVars, replVars, listVars, resVars>>

\* the frame of a subsystem's actions: the other subsystems do not move
OrchOnly == UNCHANGED <<limVars, pageVars, importVars, reqVars, textVars, syncVars, replVars, listVars, resVars>>

LimOnly == UNCHANGED <<orchVars, pageVars, importVars, reqVars, textVars, syncVars, replVars, listVars, resVars>>

PagesOnly == UNCHANGED <<orchVars, limVars, importVars, reqVars, textVars, syncVars, replVars, listVars, resVars>>

ImportOnly == UNCHANGED <<orchVars, limVars, pageVars, reqVars, textVars, syncVars, replVars, listVars, resVars>>

ReqOnly == UNCHANGED <<orchVars, limVars, pageVars, importVars, textVars, syncVars, replVars, listVars, resVars>>

TextOnly == UNCHANGED <<orchVars, limVars, pageVars, importVars, reqVars, syncVars, replVars, listVars, resVars>>

SyncOnly == UNCHANGED <<orchVars, limVars, pageVars, importVars, reqVars, textVars, replVars, listVars, resVars>>

ReplOnly == UNCHANGED <<orchVars, limVars, pageVars, importVars, reqVars, textVars, syncVars, listVars, resVars>>

ListOnly == UNCHANGED <<orchVars, limVars, pageVars, importVars, reqVars, textVars, syncVars, replVars, resVars>>

ResOnly == UNCHANGED <<orchVars, limVars, pageVars, importVars, reqVars, textVars, syncVars, replVars, listVars>>

---------------------------------------------------------------------------
(* Helpers *)

IsPrefix(s, t) == Len(s) <= Len(t) /\ \A i \in 1..Len(s) : s[i] = t[i]

Range(s) == {s[i] : i \in 1..Len(s)}

RECURSIVE SeqOfSet(_)
\* the elements of a finite set of integers in increasing order
SeqOfSet(S) ==
    IF S = {} THEN <<>>
    ELSE LET m == CHOOSE x \in S : \A y \in S : x <= y
         IN  <<m>> \o SeqOfSet(S \ {m})

---------------------------------------------------------------------------
(* Orchestrator: TestRailImporterSync.start and TestRailImporter.start *)

NumProjects == 2
NumAttachments == 2
NumFields == 2

ProjectIds == 1..NumProjects

\* ThreadPoolExecutor(max_workers=8) of step 5 of TestRailImporter.start
MaxProjectWorkers == 8

\* the global phases in the order start() calls them
GlobalPhases == <<"users", "projects", "attachments", "fields", "per_project">>

\* the per-project sub-phases in the order they are called for one project
SubPhases == <<"configurations", "shared_steps", "milestones", "suites", "cases", "runs">>

\* 'users.migrate' decides whether Users.import_users is called at all
ExpectedPhases ==
    IF users_migrate THEN GlobalPhases
    ELSE <<"projects", "attachments", "fields", "per_project">>

OrchInit ==
    /\ sync \in BOOLEAN
    /\ users_migrate \in BOOLEAN
    /\ pc = "users"
    /\ active = "none"
    /\ begun = <<>>
    /\ returned = <<>>
    /\ projects = <<>>
    /\ attTasks = {}
    /\ attachments_map = {}
    /\ fieldTasks = {}
    /\ custom_fields = {}
    /\ projAt = [p \in ProjectIds |-> 0]
    /\ projFailed = [p \in ProjectIds |-> FALSE]
    /\ projLog = [p \in ProjectIds |-> <<>>]

OrchParked ==
    /\ sync = TRUE
    /\ users_migrate = TRUE
    /\ pc = "parked"
    /\ active = "none"
    /\ begun = <<>>
    /\ returned = <<>>
    /\ projects = <<>>
    /\ attTasks = {}
    /\ attachments_map = {}
    /\ fieldTasks = {}
    /\ custom_fields = {}
    /\ projAt = [p \in ProjectIds |-> 0]
    /\ projFailed = [p \in ProjectIds |-> FALSE]
    /\ projLog = [p \in ProjectIds |-> <<>>]

\* a synchronous call of a global phase: the call begins ...
BeginPhase(ph) ==
    /\ pc = ph
    /\ active = "none"
    /\ active' = ph
    /\ begun' = Append(begun, ph)

\* ... and start() goes on to the next statement only when it has returned
ReturnPhase(ph, next) ==
    /\ active = ph
    /\ active' = "none"
    /\ returned' = Append(returned, ph)
    /\ pc' = next

UsersBegin ==
    /\ users_migrate
    /\ BeginPhase("users")
    /\ UNCHANGED <<sync, users_migrate, pc, returned, projects, attTasks, attachments_map,
                   fieldTasks, custom_fields, projAt, projFailed, projLog>>
    /\ OrchOnly

UsersReturn ==
    /\ ReturnPhase("users", "projects")
    /\ UNCHANGED <<sync, users_migrate, begun, projects, attTasks, attachments_map,
                   fieldTasks, custom_fields, projAt, projFailed, projLog>>
    /\ OrchOnly

UsersSkip ==
    /\ pc = "users"
    /\ ~users_migrate
    /\ pc' = "projects"
    /\ UNCHANGED <<sync, users_migrate, active, begun, returned, projects, attTasks,
                   attachments_map, fieldTasks, custom_fields, projAt, projFailed, projLog>>
    /\ OrchOnly

ProjectsBegin ==
    /\ BeginPhase("projects")
    /\ UNCHANGED <<sync, users_migrate, pc, returned, projects, attTasks, attachments_map,
                   fieldTasks, custom_fields, projAt, projFailed, projLog>>
    /\ OrchOnly

\* import_projects returns the mappings with the list of target projects
ProjectsReturn ==
    /\ ReturnPhase("projects", "attachments")
    /\ \E S \in SUBSET ProjectIds : projects' = SeqOfSet(S)
    /\ UNCHANGED <<sync, users_migrate, begun, attTasks, attachments_map,
                   fieldTasks, custom_fields, projAt, projFailed, projLog>>
    /\ OrchOnly

\* import_all_attachments_async: one task per raw record of get_attachments_list
AttachmentsBegin ==
    /\ BeginPhase("attachments")
    /\ \E S \in SUBSET (1..NumAttachments) : attTasks' = S
    /\ UNCHANGED <<sync, users_migrate, pc, returned, projects, attachments_map,
                   fieldTasks, custom_fields, projAt, projFailed, projLog>>
    /\ OrchOnly

\* import_raw_attachment: the upload succeeded and the map is written, or the
\* record is skipped / the download or upload failed and is logged
AttachmentTask(a) ==
    /\ a \in attTasks
    /\ attTasks' = attTasks \ {a}
    /\ \/ attachments_map' = attachments_map \cup {a}
       \/ attachments_map' = attachments_map
    /\ UNCHANGED <<sync, users_migrate, pc, active, begun, returned, projects,
                   fieldTasks, custom_fields, projAt, projFailed, projLog>>
    /\ OrchOnly

BulkImportJoined_NoWait == TRUE

\* 'async with asyncio.TaskGroup() as tg' leaves its block when every task is done
BulkImportJoined == attTasks = {}

AttachmentsReturn ==
    /\ BulkImportJoined
    /\ ReturnPhase("attachments", "fields")
    /\ UNCHANGED <<sync, users_migrate, begun, projects, attTasks, attachments_map,
                   fieldTasks, custom_fields, projAt, projFailed, projLog>>
    /\ OrchOnly

\* import_fields_async: one _create_custom_field task per source field to import
FieldsBegin ==
    /\ BeginPhase("fields")
    /\ \E S \in SUBSET (1..NumFields) : fieldTasks' = S
    /\ UNCHANGED <<sync, users_migrate, pc, returned, projects, attTasks, attachments_map,
                   custom_fields, projAt, projFailed, projLog>>
    /\ OrchOnly

\* _create_custom_field: the field is recorded, or its creation failed
FieldTask(f) ==
    /\ f \in fieldTasks
    /\ fieldTasks' = fieldTasks \ {f}
    /\ \/ custom_fields' = custom_fields \cup {f}
       \/ custom_fields' = custom_fields
    /\ UNCHANGED <<sync, users_migrate, pc, active, begun, returned, projects, attTasks,
                   attachments_map, projAt, projFailed, projLog>>
    /\ OrchOnly

FieldsReturn ==
    /\ fieldTasks = {}
    /\ ReturnPhase("fields", "per_project")
    /\ UNCHANGED <<sync, users_migrate, begun, projects, attTasks, attachments_map,
                   fieldTasks, custom_fields, projAt, projFailed, projLog>>
    /\ OrchOnly

Finished(p) == projAt[p] = 7 \/ projFailed[p]

Running(p) == projAt[p] \in 1..6 /\ ~projFailed[p]

\* the position of project p in mappings.projects
IndexOf(p) == CHOOSE i \in 1..Len(projects) : projects[i] = p

\* TestRailImporterSync: 'for project in self.mappings.projects', one at a time;
\* TestRailImporter: every project is submitted to an 8-worker pool
MayStart(p) ==
    IF sync
    THEN \A q \in Range(projects) : IndexOf(q) < IndexOf(p) => Finished(q)
    ELSE Cardinality({q \in Range(projects) : Running(q)}) < MaxProjectWorkers

\* start() reaches the loop over mappings.projects (step 5)
PerProjectBegin ==
    /\ BeginPhase("per_project")
    /\ UNCHANGED <<sync, users_migrate, pc, returned, projects, attTasks, attachments_map,
                   fieldTasks, custom_fields, projAt, projFailed, projLog>>
    /\ OrchOnly

ProjectStart(p) ==
    /\ active = "per_project"
    /\ p \in Range(projects)
    /\ projAt[p] = 0
    /\ MayStart(p)
    /\ projAt' = [projAt EXCEPT ![p] = 1]
    /\ UNCHANGED <<sync, users_migrate, pc, active, begun, returned, projects, attTasks,
                   attachments_map, fieldTasks, custom_fields, projFailed, projLog>>
    /\ OrchOnly

\* Whether the importer's call of a sub-phase matches the callee's signature.
\* TestRailImporter calls Cases.import_cases(project, payload_mapper=...), and
\* Cases.import_cases takes (self, project) only: the call raises TypeError.
CallAccepted(isSync, sub) == ~(sub = "cases" /\ ~isSync)

SubPhaseReturn(p) ==
    /\ Running(p)
    /\ CallAccepted(sync, SubPhases[projAt[p]])
    /\ projLog' = [projLog EXCEPT ![p] = Append(@, SubPhases[projAt[p]])]
    /\ projAt' = [projAt EXCEPT ![p] = @ + 1]
    /\ UNCHANGED <<sync, users_migrate, pc, active, begun, returned, projects, attTasks,
                   attachments_map, fieldTasks, custom_fields, projFailed>>
    /\ OrchOnly

SubPhaseRaise(p) ==
    /\ Running(p)
    /\ ~CallAccepted(sync, SubPhases[projAt[p]])
    /\ projFailed' = [projFailed EXCEPT ![p] = TRUE]
    /\ UNCHANGED <<sync, users_migrate, pc, active, begun, returned, projects, attTasks,
                   attachments_map, fieldTasks, custom_fields, projAt, projLog>>
    /\ OrchOnly

\* TestRailImporterSync.start ends after the loop (it prints no report).
\* TestRailImporter.start: future.result() re-raises a worker's exception, the
\* executor's exit waits for the other workers, and the report is skipped.
ProjectsJoined ==
    /\ \A p \in Range(projects) : Finished(p)
    /\ ReturnPhase("per_project",
                   IF \E p \in Range(projects) : projFailed[p] THEN "aborted"
                   ELSE IF sync THEN "done" ELSE "report")
    /\ UNCHANGED <<sync, users_migrate, begun, projects, attTasks,
                   attachments_map, fieldTasks, custom_fields, projAt, projFailed, projLog>>
    /\ OrchOnly

\* stats.print / stats.save / stats.save_xlsx
Report ==
    /\ pc = "report"
    /\ pc' = "done"
    /\ UNCHANGED <<sync, users_migrate, active, begun, returned, projects, attTasks,
                   attachments_map, fieldTasks, custom_fields, projAt, projFailed, projLog>>
    /\ OrchOnly

OrchNext ==
    \/ UsersBegin
    \/ UsersReturn
    \/ UsersSkip
    \/ ProjectsBegin
    \/ ProjectsReturn
    \/ AttachmentsBegin
    \/ \E a \in (1..NumAttachments) : AttachmentTask(a)
    \/ AttachmentsReturn
    \/ FieldsBegin
    \/ \E f \in (1..NumFields) : FieldTask(f)
    \/ FieldsReturn
    \/ PerProjectBegin
    \/ \E p \in ProjectIds : ProjectStart(p)
    \/ \E p \in ProjectIds : SubPhaseReturn(p)
    \/ \E p \in ProjectIds : SubPhaseRaise(p)
    \/ ProjectsJoined
    \/ Report

---------------------------------------------------------------------------
(* RateLimiter (support/rate_limiter.py) *)

NumThreads == 2
MaxClock == 7

Threads == 1..NumThreads

\* requests_per_minute settings; 0 disables the limiter
RpmChoices == {0, 20, 30}

\* self.enabled = requests_per_minute > 0
Enabled == requests_per_minute > 0

\* min_interval = 1.0 / (requests_per_minute / 60.0), in seconds
MinInterval == IF Enabled THEN 60 \div requests_per_minute ELSE 0

LimInit ==
    /\ requests_per_minute \in RpmChoices
    /\ clock = 1
    /\ last_request_time = 0
    /\ lockHolder = 0
    /\ thPc = [t \in Threads |-> "idle"]
    /\ current_time = [t \in Threads |-> 0]
    /\ wakeAt = [t \in Threads |-> 0]
    /\ grants = <<>>

LimParked ==
    /\ requests_per_minute = 0
    /\ clock = 0
    /\ last_request_time = 0
    /\ lockHolder = 0
    /\ thPc = [t \in Threads |-> "parked"]
    /\ current_time = [t \in Threads |-> 0]
    /\ wakeAt = [t \in Threads |-> 0]
    /\ grants = <<>>

\* the monotonic clock advances
Tick ==
    /\ clock >= 1
    /\ clock < MaxClock
    /\ clock' = clock + 1
    /\ UNCHANGED <<requests_per_minute, last_request_time, lockHolder, thPc,
                   current_time, wakeAt, grants>>
    /\ LimOnly

\* wait_if_needed is called: 'if not self.enabled: return'
Call(t) ==
    /\ thPc[t] = "idle"
    /\ thPc' = [thPc EXCEPT ![t] = IF Enabled THEN "acquire" ELSE "idle"]
    /\ UNCHANGED <<requests_per_minute, clock, last_request_time, lockHolder,
                   current_time, wakeAt, grants>>
    /\ LimOnly

LockFree_NoLock == TRUE

\* 'with self._lock:' is entered only while no other thread holds the lock
LockFree == lockHolder = 0

Acquire(t) ==
    /\ thPc[t] = "acquire"
    /\ LockFree
    /\ lockHolder' = t
    /\ thPc' = [thPc EXCEPT ![t] = "read"]
    /\ UNCHANGED <<requests_per_minute, clock, last_request_time, current_time,
                   wakeAt, grants>>
    /\ LimOnly

\* sleep_time = self.min_interval - time_since_last_request
SleepTime(now) == MinInterval - (now - last_request_time)

\* current_time = time.monotonic(); sleep when the last grant is too recent
ReadClock(t) ==
    /\ thPc[t] = "read"
    /\ current_time' = [current_time EXCEPT ![t] = clock]
    /\ IF last_request_time > 0 /\ clock - last_request_time < MinInterval
       THEN /\ thPc' = [thPc EXCEPT ![t] = "sleeping"]
            /\ wakeAt' = [wakeAt EXCEPT ![t] = clock + SleepTime(clock)]
       ELSE /\ thPc' = [thPc EXCEPT ![t] = "update"]
            /\ UNCHANGED wakeAt
    /\ UNCHANGED <<requests_per_minute, clock, last_request_time, lockHolder, grants>>
    /\ LimOnly

\* time.sleep(sleep_time) returns no earlier than asked; current_time is read again
Wake(t) ==
    /\ thPc[t] = "sleeping"
    /\ clock >= wakeAt[t]
    /\ current_time' = [current_time EXCEPT ![t] = clock]
    /\ thPc' = [thPc EXCEPT ![t] = "update"]
    /\ UNCHANGED <<requests_per_minute, clock, last_request_time, lockHolder,
                   wakeAt, grants>>
    /\ LimOnly

\* self.last_request_time = current_time, and the lock is released
Update(t) ==
    /\ thPc[t] = "update"
    /\ last_request_time' = current_time[t]
    /\ grants' = Append(grants, current_time[t])
    /\ lockHolder' = IF lockHolder = t THEN 0 ELSE lockHolder
    /\ thPc' = [thPc EXCEPT ![t] = "idle"]
    /\ UNCHANGED <<requests_per_minute, clock, current_time, wakeAt>>
    /\ LimOnly

LimNext ==
    \/ Tick
    \/ \E t \in Threads : Call(t)
    \/ \E t \in Threads : Acquire(t)
    \/ \E t \in Threads : ReadClock(t)
    \/ \E t \in Threads : Wake(t)
    \/ \E t \in Threads : Update(t)

---------------------------------------------------------------------------
(* Cases.import_cases_for_suite and Cases.process_cases (entities/cases.py) *)

MaxFullPages == 2

\* limit = 20 if self.config.get('qase.enterprise') else 100
Limit == IF enterprise THEN 20 ELSE 100

\* sizes of the last, partial page of the suite
RestChoices == {0, 1, Limit - 1}

\* what one call of process_cases can meet
PageOutcomes == {"ok", "rejected", "fetch_error", "prepare_error"}

PagesInit ==
    /\ enterprise \in BOOLEAN
    /\ \E full \in 0..MaxFullPages : \E rest \in RestChoices :
           total = full * Limit + rest
    /\ offset = 0
    /\ pgPc = "loop"
    /\ requested = <<>>
    /\ sizes = <<>>
    /\ counts = <<>>
    /\ submitted = {}

PagesParked ==
    /\ enterprise = FALSE
    /\ total = 0
    /\ offset = 0
    /\ pgPc = "parked"
    /\ requested = <<>>
    /\ sizes = <<>>
    /\ counts = <<>>
    /\ submitted = {}

\* testrail.get_cases(project, suite, limit, offset): the size of the page
PageSize(off) ==
    IF total - off >= Limit THEN Limit
    ELSE IF total > off THEN total - off
    ELSE 0

\* process_cases: the value it returns. Any exception (the fetch, the
\* TaskGroup of _prepare_cases, the submission) is caught and 0 is returned;
\* a page that create_cases rejects (status False) still returns its size.
ProcessCasesCount(outcome, size) ==
    IF outcome \in {"fetch_error", "prepare_error"} THEN 0 ELSE size

LoopEnds_OnEmptyOnly(count) == count = 0

\* 'if count < limit: break'
LoopEnds(count) == count < Limit

\* one iteration of the while-loop of import_cases_for_suite
ProcessCases(outcome) ==
    /\ pgPc = "loop"
    /\ outcome = "prepare_error" => PageSize(offset) > 0
    /\ outcome = "rejected" => PageSize(offset) > 0
    /\ LET size == PageSize(offset)
           count == ProcessCasesCount(outcome, size)
       IN  /\ requested' = Append(requested, offset)
           /\ sizes' = Append(sizes, IF outcome = "fetch_error" THEN -1 ELSE size)
           /\ counts' = Append(counts, count)
           /\ submitted' = IF outcome = "ok" /\ size > 0
                            THEN submitted \cup {offset} ELSE submitted
           /\ IF LoopEnds(count)
              THEN pgPc' = "done" /\ offset' = offset
              ELSE pgPc' = "loop" /\ offset' = offset + Limit
    /\ UNCHANGED <<enterprise, total>>
    /\ PagesOnly

PagesNext == \E outcome \in PageOutcomes : ProcessCases(outcome)

---------------------------------------------------------------------------
(* Labels of enum values: strings, as sequences of characters *)

RECURSIVE LStrip(_)
LStrip(s) == IF s # <<>> /\ Head(s) = " " THEN LStrip(Tail(s)) ELSE s

RECURSIVE RStrip(_)
RStrip(s) ==
    IF s # <<>> /\ s[Len(s)] = " " THEN RStrip(SubSeq(s, 1, Len(s) - 1)) ELSE s

\* str.strip()
Strip(s) == RStrip(LStrip(s))

\* config['options']['items'] of a source enum field: the lines "key, title"
ItemsLH == <<[key |-> 1, title |-> <<"L">>], [key |-> 2, title |-> <<"H">>]>>
ItemsPadded == <<[key |-> 1, title |-> <<"L", " ">>], [key |-> 2, title |-> <<"l">>]>>
ItemsDup == <<[key |-> 1, title |-> <<"L">>], [key |-> 2, title |-> <<" ", "L">>]>>
ItemsH == <<[key |-> 1, title |-> <<"H">>]>>

ItemsChoices == {ItemsLH, ItemsPadded, ItemsDup, ItemsH}

\* qase_field.value of a target enum field: the JSON list of {id, title}
ValuesLH == <<[id |-> 7, title |-> <<"L">>], [id |-> 8, title |-> <<"H">>]>>
ValuesPadded == <<[id |-> 7, title |-> <<" ", "L">>], [id |-> 8, title |-> <<"l">>]>>
ValuesLower == <<[id |-> 3, title |-> <<"l">>]>>
ValuesDup == <<[id |-> 1, title |-> <<"H">>], [id |-> 2, title |-> <<"L">>],
               [id |-> 3, title |-> <<"L", " ">>]>>

\* an enum field of the target always has a value list
ValueChoices == {ValuesLH, ValuesPadded, ValuesLower, ValuesDup}

---------------------------------------------------------------------------
(* The mapping store as the earlier phases leave it (support/mappings.py) *)

\* mappings.project_map: source project id -> target project code
project_map == (1 :> "A") @@ (2 :> "B")

\* self.project of Cases: the project whose cases are imported
ProjectChoices == {[code |-> "A", testrail_id |-> 1], [code |-> "B", testrail_id |-> 2]}

\* mappings.custom_fields_type: source type id -> target type number
custom_fields_type ==
    (1 :> 1) @@ (2 :> 0) @@ (3 :> 2) @@ (4 :> 7) @@ (5 :> 4) @@ (6 :> 3)
    @@ (7 :> 8) @@ (8 :> 9) @@ (12 :> 6)

\* mappings.qase_fields_type: target type name -> target type number
qase_fields_type ==
    [number |-> 0, string |-> 1, text |-> 2, selectbox |-> 3, checkbox |-> 4,
     radio |-> 5, multiselect |-> 6, url |-> 7, user |-> 8, datetime |-> 9]

\* f with the entry k -> v written (dict assignment)
Put(f, k, v) == (k :> v) @@ f

---------------------------------------------------------------------------
(* The custom-field reconciler (entities/fields.py, service/qase.py) *)

\* the keys of the dict tr_values built from the items
TrKeys(items) == {items[i].key : i \in 1..Len(items)}

\* tr_values: key.strip() -> title.strip(); a later line with the same key
\* overwrites an earlier one
TrValues(items) ==
    [k \in TrKeys(items) |->
        LET last == CHOOSE i \in 1..Len(items) :
                        /\ items[i].key = k
                        /\ \A j \in (i + 1)..Len(items) : items[j].key # k
        IN  Strip(items[last].title)]

LabelsMatch_IgnoreCase(tr_title, qase_title) ==
    LET lower(s) == [i \in DOMAIN s |-> IF s[i] = "L" THEN "l" ELSE s[i]]
    IN  lower(Strip(tr_title)) = lower(Strip(qase_title))

\* 'if tr_title.strip() == qase_title.strip()'
LabelsMatch(tr_title, qase_title) == Strip(tr_title) = Strip(qase_title)

\* the inner for-loop with its break: the id of the first value of
\* qase_values (in dict order) whose title matches, 0 when the loop ends
\* without a match
FirstMatch(tr_title, qase_values) ==
    LET hits == {i \in 1..Len(qase_values) : LabelsMatch(tr_title, qase_values[i].title)}
    IN  IF hits = {} THEN 0
        ELSE qase_values[CHOOSE i \in hits : \A j \in hits : i <= j].id

\* the dict tr_key_to_qase_id built from the items and qase_values: the four
\* copies of the loop in fields.py compute the same function
TrKeyToQaseId(items, qase_values) ==
    LET tr_values == TrValues(items)
        matched == {k \in DOMAIN tr_values : FirstMatch(tr_values[k], qase_values) # 0}
    IN  [k \in matched |-> FirstMatch(tr_values[k], qase_values)]

\* QaseService.__split_values: the dict key -> value of the lines, in the
\* order the keys first occur
SplitValues(items) ==
    LET firsts == SelectSeq([i \in 1..Len(items) |-> i],
                      LAMBDA i : \A j \in 1..(i - 1) : items[j].key # items[i].key)
    IN  [n \in 1..Len(firsts) |->
            LET k == items[firsts[n]].key
                last == CHOOSE i \in 1..Len(items) :
                            /\ items[i].key = k
                            /\ \A j \in (i + 1)..Len(items) : items[j].key # k
            IN  [key |-> k, title |-> items[last].title]]

\* the loop of prepare_custom_field_data over values.items(): every stripped
\* title not seen before gets the next id, starting from 1
RECURSIVE UniqueValues(_, _, _)
UniqueValues(values, unique_values, next_id) ==
    IF values = <<>> THEN <<>>
    ELSE LET value_stripped == Strip(Head(values).title)
         IN  IF value_stripped \notin unique_values
             THEN <<[id |-> next_id, title |-> value_stripped]>>
                  \o UniqueValues(Tail(values), unique_values \cup {value_stripped},
                                  next_id + 1)
             ELSE UniqueValues(Tail(values), unique_values, next_id)

\* the descriptor the reconciler works on: the source field (or its copy)
NewDescriptor(f) ==
    [name |-> f.name, label |-> f.label, type_id |-> f.type_id,
     configs |-> f.configs,
     qase_id |-> 0,
     has_qase_values |-> FALSE, qase_values |-> <<>>,
     has_tr_key_to_qase_id |-> FALSE, tr_key_to_qase_id |-> <<>>,
     project_id |-> 0, project_code |-> ""]

\* "field['type_id'] in [12, 6] and config.get('options', {}).get('items')"
HasEnumItems(fd) == fd.type_id \in {12, 6} /\ fd.configs[1].items # <<>>

\* the codes prepare_custom_field_data and check_field_update_needed take
\* from the first configuration
ExpectedProjects(fd) ==
    IF fd.configs[1].is_global THEN {}
    ELSE {project_map[p] : p \in Range(fd.configs[1].project_ids) \cap DOMAIN project_map}

\* prepare_custom_field_data: the body of the create request
PrepareCustomFieldData(fd) ==
    [title |-> fd.label,
     type |-> custom_fields_type[fd.type_id],
     value |-> IF HasEnumItems(fd)
               THEN UniqueValues(SplitValues(fd.configs[1].items), {}, 1) ELSE <<>>,
     is_enabled_for_all_projects |->
         fd.configs[1].is_global \/ fd.configs[1].project_ids = <<>>,
     projects_codes |-> ExpectedProjects(fd)]

\* prepare_custom_field_data: what it leaves in the descriptor
AfterPrepare(fd) ==
    IF HasEnumItems(fd)
    THEN [fd EXCEPT !.has_qase_values = TRUE,
                    !.qase_values = PrepareCustomFieldData(fd).value]
    ELSE fd

\* _create_tr_key_to_qase_id_mapping(field)
CreateTrKeyToQaseIdMapping(fd) ==
    IF fd.configs = <<>> \/ fd.configs[1].items = <<>> THEN fd
    ELSE [fd EXCEPT !.has_tr_key_to_qase_id = TRUE,
                    !.tr_key_to_qase_id =
                        TrKeyToQaseId(fd.configs[1].items, fd.qase_values)]

\* the descriptor recorded after create_custom_field returned qase_id > 0
CreatedDescriptor(fd, qase_id) ==
    LET prepared == [AfterPrepare(fd) EXCEPT !.qase_id = qase_id]
    IN  IF prepared.qase_values # <<>> THEN CreateTrKeyToQaseIdMapping(prepared)
        ELSE prepared

\* check_field_update_needed. existing_field.value is the JSON string that
\* json.loads decodes in fields.py, so iterating it yields characters, none
\* of which has a 'title': existing_values stays empty.
CheckFieldUpdateNeeded(fd, existing_field) ==
    LET enum == fd.type_id \in {6, 12}
        missing_values ==
            IF enum /\ fd.qase_values # <<>>
            THEN {Strip(fd.qase_values[i].title) : i \in 1..Len(fd.qase_values)}
            ELSE {}
        needs_mapping_update == enum /\ fd.qase_values = <<>>
        missing_projects ==
            IF ~existing_field.is_enabled_for_all_projects /\ fd.configs # <<>>
            THEN ExpectedProjects(fd) \ existing_field.projects_codes
            ELSE {}
    IN  [needs_update |-> missing_values # {} \/ needs_mapping_update
                          \/ missing_projects # {},
         missing_values |-> missing_values,
         needs_mapping_update |-> needs_mapping_update,
         missing_projects |-> missing_projects]

\* RefreshReached: the branch 'if updated_field ... and updated_field.value'
\* is entered.
\* the refresh after a successful update: get_custom_field returns the
\* target's field, whose value list the reconciler copies into qase_values.
\* The update sent the existing value list back, so the list read is the
\* list the field had; refreshed = FALSE is a failed get_custom_field.
\* withMapping: the global and the per-project path also build
\* tr_key_to_qase_id here, from field['configs'][0] of the source field.
RefreshReached(fd, qase_field, update_success, refreshed) ==
    LET update_data == CheckFieldUpdateNeeded(fd, qase_field)
    IN  /\ update_data.needs_update
        /\ update_success
        /\ update_data.missing_values # {} \/ update_data.needs_mapping_update
        /\ refreshed
        /\ qase_field.value # <<>>

Refreshed(fd, qase_field, first_items, update_success, refreshed, withMapping) ==
        IF RefreshReached(fd, qase_field, update_success, refreshed)
        THEN LET got == [fd EXCEPT !.has_qase_values = TRUE,
                                   !.qase_values = qase_field.value]
             IN  IF withMapping /\ first_items # <<>>
                 THEN [got EXCEPT !.has_tr_key_to_qase_id = TRUE,
                                  !.tr_key_to_qase_id =
                                      TrKeyToQaseId(first_items, got.qase_values)]
                 ELSE got
        ELSE fd

\* "Set up field data for later use", for a qase_field whose type is
\* selectbox, multiselect or radio: qase_values loaded from qase_field.value
\* when the descriptor has none; withMapping: the single-project and the
\* per-project path rebuild tr_key_to_qase_id from the descriptor's own
\* first configuration.
SetUp(fd, qase_field, withMapping) ==
    IF qase_field.type \notin {"selectbox", "multiselect", "radio"} THEN fd
    ELSE LET loaded == IF fd.has_qase_values THEN fd
                       ELSE [fd EXCEPT !.has_qase_values = TRUE,
                                       !.qase_values = qase_field.value]
         IN  IF withMapping /\ loaded.configs # <<>> /\ loaded.configs[1].items # <<>>
             THEN [loaded EXCEPT !.has_tr_key_to_qase_id = TRUE,
                                 !.tr_key_to_qase_id =
                                     TrKeyToQaseId(loaded.configs[1].items,
                                                   loaded.qase_values)]
             ELSE loaded

\* the descriptor recorded for a source field that matched qase_field
GlobalExisting(fd, qase_field, update_success, refreshed) ==
    [SetUp(Refreshed(fd, qase_field, fd.configs[1].items, update_success, refreshed, TRUE),
           qase_field, FALSE)
     EXCEPT !.qase_id = qase_field.id]

SingleProjectExisting(fd, qase_field, update_success, refreshed) ==
    [SetUp(Refreshed(fd, qase_field, <<>>, update_success, refreshed, FALSE),
           qase_field, TRUE)
     EXCEPT !.qase_id = qase_field.id]

ProjectSpecificExisting(fd, first_items, qase_field, update_success, refreshed) ==
    [SetUp(Refreshed(fd, qase_field, first_items, update_success, refreshed, TRUE),
           qase_field, TRUE)
     EXCEPT !.qase_id = qase_field.id]

\* one configuration of a source field
Config(is_global, project_ids, items) ==
    [is_global |-> is_global, project_ids |-> project_ids, items |-> items]

\* the configurations a source field may carry: one global, one for listed
\* projects (project 3 is not in project_map), or several
ConfigsChoices(itemsSet, itemsPairs) ==
    {<<Config(TRUE, <<>>, it)>> : it \in itemsSet}
    \cup {<<Config(FALSE, p, it)>> : p \in {<<1>>, <<1, 3>>}, it \in itemsSet}
    \cup {<<Config(FALSE, <<1>>, ab[1]), Config(FALSE, <<2>>, ab[2])>> : ab \in itemsPairs}
    \cup {<<Config(FALSE, <<1, 2>>, ab[1]), Config(TRUE, <<>>, ab[2])>> : ab \in itemsPairs}
    \cup {<<Config(TRUE, <<>>, ab[1]), Config(FALSE, <<1, 2>>, ab[2])>> : ab \in itemsPairs}

SourceField(type_id, configs) ==
    [name |-> "f", label |-> <<"F">>, type_id |-> type_id, configs |-> configs]

\* source case fields: dropdown (6), multi-select (12) and string (1)
FieldChoices ==
    {SourceField(t, cs) : t \in {6, 12}, cs \in ConfigsChoices(ItemsChoices,
                         {<<ItemsLH, ItemsPadded>>, <<ItemsDup, ItemsH>>,
                          <<ItemsLH, ItemsLH>>})}
    \cup {SourceField(1, cs) : cs \in ConfigsChoices({<<>>}, {<<(<<>>), (<<>>)>>})}

TargetField(id, title, type, value, all, codes) ==
    [id |-> id, title |-> title, type |-> type, value |-> value,
     is_enabled_for_all_projects |-> all, projects_codes |-> codes]

\* the custom fields the target holds before the run that may match "F"
ExistingChoices(valuesSet) ==
    {<<>>}
    \cup {<<TargetField(30, t, ty, v, sc[1], sc[2])>> :
             t \in {<<"F">>, <<"F", "A">>},
             ty \in {"selectbox", "multiselect"},
             v \in valuesSet,
             sc \in {<<TRUE, {}>>, <<FALSE, {"A"}>>}}
    \cup {<<TargetField(30, t, "string", <<>>, sc[1], sc[2])>> :
             t \in {<<"F">>, <<"F", "A">>},
             sc \in {<<TRUE, {}>>, <<FALSE, {"A"}>>}}

\* the synthetic fields the target holds before the run: none, or all three
SyntheticChoices ==
    {<<>>,
     <<TargetField(41, <<"Refs">>, "text", <<>>, TRUE, {}),
       TargetField(42, <<"TestRail Original ID">>, "string", <<>>, TRUE, {}),
       TargetField(43, <<"Estimate">>, "string", <<>>, TRUE, {})>>}

\* the first id the target gives to a field created in this run
FirstCreatedId == 50

\* the (configuration, project) pairs the loops of
\* _create_project_specific_fields visit: configurations that list projects,
\* and of their projects those in project_map. 'config' is the position of
\* the configuration whose project_ids the inner loop runs over, 'bound' the
\* position of the configuration the loop variable 'config' is bound to when
\* the iteration begins
RECURSIVE ProjectWork(_, _)
ProjectWork(configs, ci) ==
    IF ci > Len(configs) THEN <<>>
    ELSE LET pids == configs[ci].project_ids
             mapped == SelectSeq(pids, LAMBDA p : p \in DOMAIN project_map)
         IN  [n \in 1..Len(mapped) |->
                 [config |-> ci, bound |-> ci, project_id |-> mapped[n]]]
             \o ProjectWork(configs, ci + 1)

\* an empty case payload, before any case was prepared
NoPayload ==
    [prepared |-> FALSE, id |-> [hi |-> 0, lo |-> 0], author_id |-> 0,
     has_suite |-> FALSE, suite_id |-> 0,
     has_milestone |-> FALSE, milestone_id |-> 0,
     custom_field |-> <<>>, steps |-> <<>>, enum_emitted |-> FALSE,
     enum_key |-> <<"", "">>]

NoCase ==
    [id |-> [hi |-> 0, lo |-> 0], created_by |-> 0, section_id |-> 0,
     milestone_id |-> 0, value |-> [list |-> FALSE, keys |-> <<>>],
     fields |-> <<>>, steps |-> <<>>,
     refs |-> FALSE, estimate |-> FALSE, code |-> ""]

\* before update_custom_field was called
NoUpdate ==
    [called |-> FALSE, success |-> FALSE,
     existing_field |-> TargetField(0, <<>>, "", <<>>, FALSE, {}),
     update_payload |-> [title |-> <<>>, type |-> "", is_enabled_for_all_projects |-> FALSE,
                         value |-> <<>>, projects_codes |-> {}]]

NoLookup == [called |-> FALSE, testrail_id |-> [hi |-> 0, lo |-> 0],
             result |-> [hi |-> 0, lo |-> 0]]

\* the state when import_fields_async starts its TaskGroup of field tasks
ImportInit(fields, existing, pages) ==
    /\ source_cases \in pages
    /\ preserve_ids \in BOOLEAN
    /\ refs_enable \in BOOLEAN
    /\ field \in fields
    /\ \E e \in existing : \E s \in SyntheticChoices : qase_fields = e \o s
    /\ fPc = "field"
    /\ mWork = IF Len(field.configs) > 1 THEN ProjectWork(field.configs, 1) ELSE <<>>
    /\ mappings_custom_fields = <<>>
    /\ refs_id = 0
    /\ has_original_id = FALSE
    /\ testrail_original_id_field_id = 0
    /\ has_estimate = FALSE
    /\ estimate_field_id = 0
    /\ next_qase_id = FirstCreatedId
    /\ case_id_mapping = <<>>
    /\ lastCase = NoCase
    /\ lastPayload = NoPayload
    /\ lastLookup = NoLookup
    /\ qase_target = [id \in {qase_fields[i].id : i \in 1..Len(qase_fields)} |->
                         qase_fields[CHOOSE i \in 1..Len(qase_fields) : qase_fields[i].id = id]]
    /\ lastUpdate = NoUpdate

ImportParked ==
    /\ source_cases = {}
    /\ preserve_ids = FALSE
    /\ refs_enable = FALSE
    /\ field = SourceField(1, <<>>)
    /\ qase_fields = <<>>
    /\ fPc = "parked"
    /\ mWork = <<>>
    /\ mappings_custom_fields = <<>>
    /\ refs_id = 0
    /\ has_original_id = FALSE
    /\ testrail_original_id_field_id = 0
    /\ has_estimate = FALSE
    /\ estimate_field_id = 0
    /\ next_qase_id = FirstCreatedId
    /\ case_id_mapping = <<>>
    /\ lastCase = NoCase
    /\ lastPayload = NoPayload
    /\ lastLookup = NoLookup
    /\ qase_target = <<>>
    /\ lastUpdate = NoUpdate

\* the first qase_field of qase_fields with the title and a matching type,
\* 0 when the for-loop finds none
FindExisting(title, type_id) ==
    LET hits == {i \in 1..Len(qase_fields) :
                    /\ qase_fields[i].title = title
                    /\ custom_fields_type[type_id] = qase_fields_type[qase_fields[i].type]}
    IN  IF hits = {} THEN 0 ELSE CHOOSE i \in hits : \A j \in hits : i <= j

\* a keying that ignores the project code
FieldKey_BareName(name, project_code) == <<name, "">>

\* the key of mappings.custom_fields: name, or f"{name}_{project_code}"
\* (a pair, the code "" standing for the bare name)
FieldKey(name, project_code) == <<name, project_code>>

\* what the cases phase and the pending work keep
FieldsKeep == UNCHANGED <<preserve_ids, refs_enable, field, qase_fields, source_cases,
                          case_id_mapping, lastCase, lastPayload, lastLookup>>

\* a payload that carries the changes alone
UpdatePayload_ChangesOnly(existing_field, update_data) ==
    [title |-> existing_field.title,
     type |-> existing_field.type,
     is_enabled_for_all_projects |-> existing_field.is_enabled_for_all_projects,
     value |-> <<>>,
     projects_codes |-> update_data.missing_projects]

\* update_custom_field: update_payload, built from existing_field (what
\* get_custom_field returns) and update_data. existing_field.value is a JSON
\* string, parsed into the list; with 'missing_values' the code takes the
\* string itself as existing_values: an empty one gives the new values the
\* ids 1, 2, ... (in the arbitrary order of list(missing_values)).
UpdatePayload(existing_field, update_data) ==
    LET RECURSIVE Listed(_)
        Listed(S) ==
            IF S = {} THEN <<>>
            ELSE LET x == CHOOSE y \in S : TRUE IN <<x>> \o Listed(S \ {x})
        missing == Listed(update_data.missing_values)
    IN  [title |-> existing_field.title,
         type |-> existing_field.type,
         is_enabled_for_all_projects |-> existing_field.is_enabled_for_all_projects,
         value |-> IF update_data.missing_values = {} THEN existing_field.value
                   ELSE [n \in 1..Len(missing) |-> [id |-> n, title |-> missing[n]]],
         projects_codes |-> existing_field.projects_codes \cup update_data.missing_projects]

\* update_custom_field returns True: the field was read, the payload was
\* built ('{v.title for v in existing_values}' raises on the characters of a
\* non-empty JSON string) and the target accepted it
UpdateSucceeds(existing_field, update_data, accepted) ==
    /\ accepted
    /\ update_data.missing_values = {} \/ existing_field.value = <<>>

\* the target's fields after create_custom_field(data) returned the id
TargetCreated(id, data) ==
    Put(qase_target, id,
        TargetField(id, data.title,
                    CHOOSE name \in DOMAIN qase_fields_type :
                        qase_fields_type[name] = data.type,
                    data.value, data.is_enabled_for_all_projects, data.projects_codes))

\* the store and the target after one field was reconciled: fd matched
\* qase_fields[i] (existing is the descriptor then recorded, and the field is
\* updated when check_field_update_needed says so), or i = 0 and the field
\* is created from data
Reconciled(key, fd, i, existing, data, create_ok, update_success) ==
    IF i # 0
    THEN LET update_data == CheckFieldUpdateNeeded(fd, qase_fields[i])
             existing_field == qase_target[qase_fields[i].id]
             update_payload == UpdatePayload(existing_field, update_data)
         IN  /\ mappings_custom_fields' = Put(mappings_custom_fields, key, existing)
             /\ next_qase_id' = next_qase_id
             /\ IF update_data.needs_update
                THEN /\ lastUpdate' = [called |-> TRUE, success |-> update_success,
                                       existing_field |-> existing_field,
                                       update_payload |-> update_payload]
                     /\ qase_target' =
                            IF update_success
                            THEN Put(qase_target, existing_field.id,
                                     [existing_field EXCEPT
                                         !.value = update_payload.value,
                                         !.projects_codes = update_payload.projects_codes])
                            ELSE qase_target
                ELSE UNCHANGED <<lastUpdate, qase_target>>
    ELSE IF create_ok
    THEN /\ mappings_custom_fields' =
                Put(mappings_custom_fields, key, CreatedDescriptor(fd, next_qase_id))
         /\ next_qase_id' = next_qase_id + 1
         /\ qase_target' = TargetCreated(next_qase_id, data)
         /\ UNCHANGED lastUpdate
    ELSE UNCHANGED <<mappings_custom_fields, next_qase_id, qase_target, lastUpdate>>

\* _create_custom_field -> _create_single_global_field
CreateSingleGlobalField(create_ok, update_success, refreshed) ==
    /\ fPc = "field"
    /\ Len(field.configs) = 1
    /\ field.configs[1].is_global
    /\ LET fd == NewDescriptor(field)
           i == FindExisting(fd.label, fd.type_id)
           update_data == CheckFieldUpdateNeeded(fd, qase_fields[i])
           success == UpdateSucceeds(qase_target[qase_fields[i].id], update_data,
                                     update_success)
       IN  Reconciled(FieldKey(field.name, ""), fd, i,
                      GlobalExisting(fd, qase_fields[i], success, refreshed),
                      PrepareCustomFieldData(fd), create_ok, success)
    /\ fPc' = "refs"
    /\ mWork' = mWork
    /\ UNCHANGED <<refs_id, has_original_id, testrail_original_id_field_id,
                   has_estimate, estimate_field_id>>
    /\ FieldsKeep
    /\ ImportOnly

\* _create_custom_field -> _create_single_project_field
CreateSingleProjectField(create_ok, update_success, refreshed) ==
    /\ fPc = "field"
    /\ Len(field.configs) = 1
    /\ ~field.configs[1].is_global
    /\ LET fd == NewDescriptor(field)
           i == FindExisting(fd.label, fd.type_id)
           update_data == CheckFieldUpdateNeeded(fd, qase_fields[i])
           success == UpdateSucceeds(qase_target[qase_fields[i].id], update_data,
                                     update_success)
       IN  Reconciled(FieldKey(field.name, ""), fd, i,
                      SingleProjectExisting(fd, qase_fields[i], success, refreshed),
                      PrepareCustomFieldData(fd), create_ok, success)
    /\ fPc' = "refs"
    /\ mWork' = mWork
    /\ UNCHANGED <<refs_id, has_original_id, testrail_original_id_field_id,
                   has_estimate, estimate_field_id>>
    /\ FieldsKeep
    /\ ImportOnly

\* a field_copy that takes the first configuration of the field
FieldCopy_FirstConfig(config, project_id) ==
    [NewDescriptor(field) EXCEPT
        !.label = Append(field.label, project_map[project_id]),
        !.configs = <<field.configs[1]>>,
        !.project_id = project_id,
        !.project_code = project_map[project_id]]

\* field_copy of _create_project_specific_fields for one project of one
\* configuration
FieldCopy(config, project_id) ==
    [NewDescriptor(field) EXCEPT
        !.label = Append(field.label, project_map[project_id]),
        !.configs = <<config>>,
        !.project_id = project_id,
        !.project_code = project_map[project_id]]

\* _create_custom_field -> _create_project_specific_fields: one iteration of
\* the inner loop. The refresh branch rebinds the loop variable 'config' to
\* field['configs'][0] (line 385); the set-up block binds it to
\* field_copy['configs'][0] (line 429), the configuration it was bound to
\* when field_copy was made. The binding the iteration ends with is the one
\* the next project of the same configuration begins with.
CreateProjectSpecificField(create_ok, update_success, refreshed) ==
    /\ fPc = "field"
    /\ Len(field.configs) > 1
    /\ mWork # <<>>
    /\ LET config == field.configs[Head(mWork).bound]
           project_id == Head(mWork).project_id
           fd == FieldCopy(config, project_id)
           i == FindExisting(fd.label, field.type_id)
           update_data == CheckFieldUpdateNeeded(fd, qase_fields[i])
           success == UpdateSucceeds(qase_target[qase_fields[i].id], update_data,
                                     update_success)
       IN  Reconciled(FieldKey(field.name, fd.project_code), fd, i,
                      ProjectSpecificExisting(fd, field.configs[1].items, qase_fields[i],
                                              success, refreshed),
                      [PrepareCustomFieldData(fd) EXCEPT
                          !.is_enabled_for_all_projects = FALSE,
                          !.projects_codes = {fd.project_code}],
                      create_ok, success)
    /\ mWork' =
           LET fd == FieldCopy(field.configs[Head(mWork).bound], Head(mWork).project_id)
               i == FindExisting(fd.label, field.type_id)
               success ==
                   UpdateSucceeds(qase_target[qase_fields[i].id],
                                  CheckFieldUpdateNeeded(fd, qase_fields[i]), update_success)
               after_refresh ==
                   IF i # 0 /\ RefreshReached(fd, qase_fields[i], success, refreshed)
                   THEN 1 ELSE Head(mWork).bound
               after_set_up ==
                   IF /\ i # 0
                      /\ qase_fields[i].type \in {"selectbox", "multiselect", "radio"}
                   THEN Head(mWork).bound ELSE after_refresh
           IN  [n \in 1..(Len(mWork) - 1) |->
                   IF mWork[n + 1].config = Head(mWork).config
                   THEN [mWork[n + 1] EXCEPT !.bound = after_set_up]
                   ELSE mWork[n + 1]]
    /\ fPc' = fPc
    /\ UNCHANGED <<refs_id, has_original_id, testrail_original_id_field_id,
                   has_estimate, estimate_field_id>>
    /\ FieldsKeep
    /\ ImportOnly

\* _create_project_specific_fields returns: both loops are exhausted
ProjectSpecificFieldsReturn ==
    /\ fPc = "field"
    /\ Len(field.configs) > 1
    /\ mWork = <<>>
    /\ fPc' = "refs"
    /\ UNCHANGED <<mWork, mappings_custom_fields, next_qase_id, qase_target, lastUpdate>>
    /\ UNCHANGED <<refs_id, has_original_id, testrail_original_id_field_id,
                   has_estimate, estimate_field_id>>
    /\ FieldsKeep
    /\ ImportOnly

\* the id of the last field of qase_fields with the title (the loops of the
\* synthetic fields have no break), 0 when there is none
FindSynthetic(title) ==
    LET hits == {i \in 1..Len(qase_fields) : qase_fields[i].title = title}
    IN  IF hits = {} THEN 0
        ELSE qase_fields[CHOOSE i \in hits : \A j \in hits : j <= i].id

\* _create_refs_field
CreateRefsField(create_ok) ==
    /\ fPc = "refs"
    /\ IF refs_enable
       THEN IF FindSynthetic(<<"Refs">>) # 0
            THEN refs_id' = FindSynthetic(<<"Refs">>) /\ next_qase_id' = next_qase_id
            ELSE /\ refs_id' = (IF create_ok THEN next_qase_id ELSE 0)
                 /\ next_qase_id' = IF create_ok THEN next_qase_id + 1 ELSE next_qase_id
       ELSE UNCHANGED <<refs_id, next_qase_id>>
    /\ qase_target' =
           IF next_qase_id' # next_qase_id
           THEN TargetCreated(next_qase_id,
                    [title |-> <<"Refs">>, type |-> 2, value |-> <<>>,
                     is_enabled_for_all_projects |-> TRUE, projects_codes |-> {}])
           ELSE qase_target
    /\ lastUpdate' = lastUpdate
    /\ fPc' = "original_id"
    /\ UNCHANGED <<mWork, mappings_custom_fields, has_original_id,
                   testrail_original_id_field_id, has_estimate, estimate_field_id>>
    /\ FieldsKeep
    /\ ImportOnly

\* _create_testrail_original_id_field
CreateTestrailOriginalIdField(create_ok) ==
    /\ fPc = "original_id"
    /\ IF ~preserve_ids
       THEN /\ has_original_id' = TRUE
            /\ IF FindSynthetic(<<"TestRail Original ID">>) # 0
               THEN /\ testrail_original_id_field_id' =
                           FindSynthetic(<<"TestRail Original ID">>)
                    /\ next_qase_id' = next_qase_id
               ELSE /\ testrail_original_id_field_id' = (IF create_ok THEN next_qase_id ELSE 0)
                    /\ next_qase_id' =
                           IF create_ok THEN next_qase_id + 1 ELSE next_qase_id
       ELSE UNCHANGED <<has_original_id, testrail_original_id_field_id, next_qase_id>>
    /\ qase_target' =
           IF next_qase_id' # next_qase_id
           THEN TargetCreated(next_qase_id,
                    [title |-> <<"TestRail Original ID">>, type |-> 1, value |-> <<>>,
                     is_enabled_for_all_projects |-> TRUE, projects_codes |-> {}])
           ELSE qase_target
    /\ lastUpdate' = lastUpdate
    /\ fPc' = "estimate"
    /\ UNCHANGED <<mWork, mappings_custom_fields, refs_id, has_estimate,
                   estimate_field_id>>
    /\ FieldsKeep
    /\ ImportOnly

\* _create_estimate_field
CreateEstimateField(create_ok) ==
    /\ fPc = "estimate"
    /\ has_estimate' = TRUE
    /\ IF FindSynthetic(<<"Estimate">>) # 0
       THEN /\ estimate_field_id' = FindSynthetic(<<"Estimate">>)
            /\ next_qase_id' = next_qase_id
       ELSE /\ estimate_field_id' = (IF create_ok THEN next_qase_id ELSE 0)
            /\ next_qase_id' = IF create_ok THEN next_qase_id + 1 ELSE next_qase_id
    /\ qase_target' =
           IF next_qase_id' # next_qase_id
           THEN TargetCreated(next_qase_id,
                    [title |-> <<"Estimate">>, type |-> 1, value |-> <<>>,
                     is_enabled_for_all_projects |-> TRUE, projects_codes |-> {}])
           ELSE qase_target
    /\ lastUpdate' = lastUpdate
    /\ fPc' = "done"
    /\ UNCHANGED <<mWork, mappings_custom_fields, refs_id, has_original_id,
                   testrail_original_id_field_id>>
    /\ FieldsKeep
    /\ ImportOnly

FieldsNext ==
    \/ \E c, u, r \in BOOLEAN : CreateSingleGlobalField(c, u, r)
    \/ \E c, u, r \in BOOLEAN : CreateSingleProjectField(c, u, r)
    \/ \E c, u, r \in BOOLEAN : CreateProjectSpecificField(c, u, r)
    \/ ProjectSpecificFieldsReturn
    \/ \E c \in BOOLEAN : CreateRefsField(c)
    \/ \E c \in BOOLEAN : CreateTestrailOriginalIdField(c)
    \/ \E c \in BOOLEAN : CreateEstimateField(c)

---------------------------------------------------------------------------
(* format_links_as_markdown (support/text_utils.py) *)

(* A text is a sequence of tokens. A token is one character, except        *)
(* "http://", which stands for the seven characters of the scheme (and for *)
(* "https://": the pattern reads 'http[s]?://').                           *)

MaxTextLen == 4

Digits == <<"0", "1", "2", "3", "4", "5", "6", "7", "8", "9">>

RECURSIVE SeqsUpTo(_, _)
\* the sequences over S of length at most n
SeqsUpTo(S, n) ==
    IF n = 0 THEN {<<>>}
    ELSE LET shorter == SeqsUpTo(S, n - 1)
         IN  shorter \cup {Append(s, c) : s \in shorter, c \in S}

\* the texts the formatter is explored with: every short text, and two longer
\* ones with a URL and numbered lines
TextChoices ==
    SeqsUpTo({"http://", "a", " ", "\n", "]", "(", "0", "."}, MaxTextLen)
    \cup {<<"0", ".", " ", "a", "\n", "0", ".", " ", "http://", "a">>,
          <<"a", " ", "http://", "a", ".", "a", " ", "a">>}

\* fix_numbering: the text is split at '\n'; a line that matches
\* r'^(\d+)\. ' gets the number of its place in its block of consecutive
\* numbered lines; the lines are joined again
fix_numbering(t) ==
    LET RECURSIVE Split(_)
        \* text.split('\n')
        Split(s) ==
            IF \A i \in 1..Len(s) : s[i] # "\n" THEN <<s>>
            ELSE LET n == CHOOSE i \in 1..Len(s) :
                              s[i] = "\n" /\ \A j \in 1..(i - 1) : s[j] # "\n"
                 IN  <<SubSeq(s, 1, n - 1)>> \o Split(SubSeq(s, n + 1, Len(s)))
        RECURSIVE Join(_)
        \* '\n'.join(result_lines)
        Join(lines) ==
            IF Len(lines) = 1 THEN lines[1]
            ELSE lines[1] \o <<"\n">> \o Join(Tail(lines))
        RECURSIVE Str(_)
        \* str(block_number)
        Str(n) ==
            IF n < 10 THEN <<Digits[n + 1]>>
            ELSE Append(Str(n \div 10), Digits[(n % 10) + 1])
        \* the number of leading digits of the line
        LeadingDigits(line) ==
            Cardinality({k \in 1..Len(line) : \A j \in 1..k : line[j] \in Range(Digits)})
        \* re.match(r'^(\d+)\. ', line)
        NumberingMatch(line) ==
            /\ LeadingDigits(line) >= 1
            /\ Len(line) >= LeadingDigits(line) + 2
            /\ line[LeadingDigits(line) + 1] = "."
            /\ line[LeadingDigits(line) + 2] = " "
        RECURSIVE FixLines(_, _)
        FixLines(lines, block_number) ==
            IF lines = <<>> THEN <<>>
            ELSE IF NumberingMatch(Head(lines))
            THEN <<Str(block_number)
                     \o SubSeq(Head(lines), LeadingDigits(Head(lines)) + 1,
                               Len(Head(lines)))>>
                 \o FixLines(Tail(lines), block_number + 1)
            ELSE <<Head(lines)>> \o FixLines(Tail(lines), 1)
    IN  Join(FixLines(Split(t), 1))

\* format_links_as_markdown: convert_testrail_tables_to_markdown returns its
\* argument; then fix_numbering; then
\* re.compile(r'(?<!\]\()(?<!\])\b(http[s]?://[^\s]+)').sub(r'[\1](\1)', text)
format_links_as_markdown(t) ==
    LET IsSpace(c) == c \in {" ", "\n"}
        IsWord(c) == c = "a" \/ c \in Range(Digits)
        \* the pattern matches at position i of s
        UrlMatches(s, i) ==
            /\ s[i] = "http://"
            /\ ~(i > 2 /\ s[i - 2] = "]" /\ s[i - 1] = "(")
            /\ ~(i > 1 /\ s[i - 1] = "]")
            /\ i = 1 \/ ~IsWord(s[i - 1])
            /\ i < Len(s) /\ ~IsSpace(s[i + 1])
        \* the last position of the greedy match that starts at i
        UrlEnd(s, i) ==
            CHOOSE e \in (i + 1)..Len(s) :
                /\ \A j \in (i + 1)..e : ~IsSpace(s[j])
                /\ e = Len(s) \/ IsSpace(s[e + 1])
        RECURSIVE UrlSub(_, _)
        \* the substitution, scanning from position i
        UrlSub(s, i) ==
            IF i > Len(s) THEN <<>>
            ELSE IF UrlMatches(s, i)
            THEN <<"[">> \o SubSeq(s, i, UrlEnd(s, i)) \o <<"]", "(">>
                 \o SubSeq(s, i, UrlEnd(s, i)) \o <<")">>
                 \o UrlSub(s, UrlEnd(s, i) + 1)
            ELSE <<s[i]>> \o UrlSub(s, i + 1)
    IN  UrlSub(fix_numbering(t), 1)

TextInit ==
    /\ text \in TextChoices
    /\ passes = 0

TextParked ==
    /\ text = <<>>
    /\ passes = 0

\* a caller passes the text through the formatter (once more)
FormatLinks ==
    /\ passes < 2
    /\ text' = format_links_as_markdown(text)
    /\ passes' = passes + 1
    /\ TextOnly

---------------------------------------------------------------------------
(* Cases._prepare_case (entities/cases.py) and the lookups of the store *)

(* Case ids, MD5 prefixes and millisecond clocks exceed the 32-bit range. *)
(* A number n >= 0 is the record [hi, lo] with n = hi * 2^31 + lo and      *)
(* 0 <= lo < 2^31; n <= 2^31 - 1 exactly when hi = 0.                      *)

\* MAX_SAFE_ID = 2**31 - 1
MAX_SAFE_ID == 2147483647

Wide(hi, lo) == [hi |-> hi, lo |-> lo]

\* 'n > MAX_SAFE_ID'
ExceedsMax(n) == n.hi > 0

ModSafe_Identity(n) == n

\* 'n % MAX_SAFE_ID': 2^31 = 1 modulo 2^31 - 1, so n = hi + lo modulo it
ModSafe(n) ==
    LET r == n.lo % MAX_SAFE_ID
        h == n.hi % MAX_SAFE_ID
    IN  Wide(0, IF r >= MAX_SAFE_ID - h THEN r - (MAX_SAFE_ID - h) ELSE r + h)

\* source case ids: 5, 2^31 - 1, 2^31 and 2^31 + 1
CaseIdChoices == {Wide(0, 5), Wide(0, MAX_SAFE_ID), Wide(1, 0), Wide(1, 1)}

\* int(hashlib.md5(str(original_id).encode()).hexdigest()[:8], 16) of the
\* oversize ids: md5("2147483648") starts 1c1e4959, md5("2147483649")
\* starts a706430a
Md5Prefix(original_id) ==
    IF original_id = Wide(1, 0) THEN Wide(0, 471746905)
    ELSE Wide(1, 654721802)

\* int(time.time() * 1000) at two instants of November 2025:
\* 1762254000000 and 1763084074360
NowChoices == {Wide(820, 1317408640), Wide(820, 2147483000)}

\* the id _prepare_case computes before its safety check
GeneratedId(original_id, now) ==
    IF preserve_ids
    THEN IF ~ExceedsMax(original_id) THEN original_id
         ELSE ModSafe(Md5Prefix(original_id))
    ELSE IF ~ExceedsMax(original_id) THEN ModSafe(now)
         ELSE ModSafe(Md5Prefix(original_id))

\* "Additional safety check - all IDs must fit in int32"
SafeId(original_id, now) ==
    LET safe_id == GeneratedId(original_id, now)
    IN  IF ExceedsMax(safe_id) THEN ModSafe(safe_id) ELSE safe_id

\* mappings.users, mappings.suites[code], mappings.milestones[code] as the
\* users, suites and milestones phases leave them; project B has no
\* milestones
users == (1 :> 11)
default_user == 1
suites == [A |-> (10 :> 110), B |-> (10 :> 210)]
milestones == [A |-> (20 :> 120)]

\* Mappings.get_user_id
get_user_id(id) == IF id \in DOMAIN users THEN users[id] ELSE default_user

\* Cases._get_suite_id: the target suite, 0 for None
GetSuiteId(section_id, code) ==
    IF section_id # 0 /\ section_id \in DOMAIN suites[code]
    THEN suites[code][section_id] ELSE 0

\* the condition of Cases._set_milestone
HasMilestone(milestone_id, code) ==
    /\ milestone_id # 0
    /\ code \in DOMAIN milestones
    /\ milestone_id \in DOMAIN milestones[code]

\* Cases._validate_custom_field_values: the list of valid keys, <<>> for None
ValidateCustomFieldValues(custom_field, value, project) ==
    IF value.keys = <<>> THEN <<>>
    ELSE LET matching ==
                 {i \in 1..Len(custom_field.configs) :
                     project.testrail_id \in Range(custom_field.configs[i].project_ids)}
             config ==
                 IF custom_field.project_id # 0 /\ custom_field.project_code # ""
                 THEN custom_field.configs[1]
                 ELSE IF matching # {}
                 THEN custom_field.configs[CHOOSE i \in matching :
                                               \A j \in matching : i <= j]
                 ELSE custom_field.configs[1]
         IN  IF config.items = <<>> THEN <<>>
             ELSE SelectSeq(value.keys, LAMBDA k : k \in TrKeys(config.items))

\* 'custom_field.get('tr_key_to_qase_id') and str(v) in
\* custom_field['tr_key_to_qase_id']'
IsMapped(custom_field, v) == v \in DOMAIN custom_field.tr_key_to_qase_id

\* the ids joined into the payload for the validated keys of an enum field;
\* written = FALSE when the code assigns nothing. The keys of qase_values
\* are integers and str(v) is a string, so the 'elif ... in qase_values' of
\* the global multi-select branch never holds.
EnumEmission(custom_field, validated) ==
    IF validated = <<>> THEN [written |-> FALSE, ids |-> <<>>]
    ELSE IF custom_field.type_id = 12
    THEN IF custom_field.project_id = 0
         THEN LET mapped == SelectSeq(validated, LAMBDA v : IsMapped(custom_field, v))
              IN  [written |-> mapped # <<>>,
                   ids |-> [n \in 1..Len(mapped) |->
                               custom_field.tr_key_to_qase_id[mapped[n]]]]
         ELSE [written |-> TRUE,
               ids |-> [n \in 1..Len(validated) |->
                           IF IsMapped(custom_field, validated[n])
                           THEN custom_field.tr_key_to_qase_id[validated[n]]
                           ELSE validated[n]]]
    ELSE [written |-> TRUE,
          ids |-> <<IF IsMapped(custom_field, validated[1])
                    THEN custom_field.tr_key_to_qase_id[validated[1]]
                    ELSE validated[1]>>]

\* the key of mappings.custom_fields that _import_custom_fields_for_case
\* uses for the case's field "custom_f": the project-specific key first,
\* then the bare name; <<"", "">> when neither is recorded or the value is
\* empty
UsedFieldKey(case, project) ==
    IF case.value.keys = <<>> THEN <<"", "">>
    ELSE IF FieldKey("f", project.code) \in DOMAIN mappings_custom_fields
    THEN FieldKey("f", project.code)
    ELSE IF FieldKey("f", "") \in DOMAIN mappings_custom_fields
    THEN FieldKey("f", "")
    ELSE <<"", "">>

\* mappings.step_fields: the names of the source's fields of type 10
\* ("if field['type_id'] == 10"); the source has the one field of separated
\* steps
step_fields == <<"steps_separated">>

\* _import_custom_fields_for_case: the loop over the case's fields in the
\* order of the case's dict. data is [custom_field, steps]. The case carries
\* the custom field "custom_f" and the step field "custom_steps_separated";
\* their texts hold no attachment reference, so check_and_replace_attachments
\* leaves them as they are. A failed validation of an enum field found under
\* its bare name ends the whole loop with 'return data'; one found under its
\* project-specific key only writes nothing.
ImportCustomFieldsForCase(case, project, data) ==
    LET key == UsedFieldKey(case, project)
        custom_field == mappings_custom_fields[key]
        validated == ValidateCustomFieldValues(custom_field, case.value, project)
        emission == EnumEmission(custom_field, validated)
        WithField(d) ==
            IF key = <<"", "">> THEN d
            ELSE IF custom_field.type_id \in {6, 12}
            THEN IF emission.written
                 THEN [d EXCEPT !.custom_field =
                          Put(@, custom_field.qase_id,
                              [kind |-> "enum", ids |-> emission.ids])]
                 ELSE d
            ELSE [d EXCEPT !.custom_field =
                     Put(@, custom_field.qase_id, [kind |-> "text", ids |-> <<>>])]
        ReturnsEarly ==
            /\ key = FieldKey("f", "")
            /\ custom_field.type_id \in {6, 12}
            /\ validated = <<>>
        Kept == SelectSeq(case.steps,
                    LAMBDA step : Strip(step.content) # <<>> \/ Strip(step.expected) # <<>>)
        Steps ==
            [i \in 1..Len(Kept) |->
                [action |-> IF Strip(Kept[i].content) = <<>> THEN <<"No action">>
                            ELSE format_links_as_markdown(Strip(Kept[i].content)),
                 expected_result |-> format_links_as_markdown(Strip(Kept[i].expected)),
                 position |-> i]]
        RECURSIVE Loop(_, _)
        Loop(n, d) ==
            IF n > Len(case.fields) THEN d
            ELSE IF case.fields[n] = "f"
            THEN IF ReturnsEarly THEN d ELSE Loop(n + 1, WithField(d))
            ELSE IF (\E j \in 1..Len(step_fields) : step_fields[j] = case.fields[n])
                    /\ case.steps # <<>>
            THEN Loop(n + 1, [d EXCEPT !.steps = Steps])
            ELSE Loop(n + 1, d)
    IN  Loop(1, data)

\* the data dict of _prepare_case when it is appended to the page
PreparedCase(case, project, now) ==
    LET original_id_written ==
            IF ~preserve_ids /\ has_original_id
            THEN Put(<<>>, testrail_original_id_field_id,
                     [kind |-> "original_id", ids |-> <<>>])
            ELSE <<>>
        imported ==
            ImportCustomFieldsForCase(case, project,
                [custom_field |-> original_id_written, steps |-> <<>>])
        fields_written == imported.custom_field
        refs_written ==
            IF refs_id # 0 /\ case.refs /\ refs_enable
            THEN Put(fields_written, refs_id, [kind |-> "refs", ids |-> <<>>])
            ELSE fields_written
        estimate_written ==
            IF has_estimate /\ estimate_field_id # 0 /\ case.estimate
            THEN Put(refs_written, estimate_field_id, [kind |-> "estimate", ids |-> <<>>])
            ELSE refs_written
        key == UsedFieldKey(case, project)
    IN  [prepared |-> TRUE,
         id |-> SafeId(case.id, now),
         author_id |-> get_user_id(case.created_by),
         has_suite |-> GetSuiteId(case.section_id, project.code) # 0,
         suite_id |-> GetSuiteId(case.section_id, project.code),
         has_milestone |-> HasMilestone(case.milestone_id, project.code),
         milestone_id |-> IF HasMilestone(case.milestone_id, project.code)
                          THEN milestones[project.code][case.milestone_id] ELSE 0,
         custom_field |-> estimate_written,
         steps |-> imported.steps,
         enum_emitted |->
             /\ key # <<"", "">>
             /\ mappings_custom_fields[key].type_id \in {6, 12}
             /\ EnumEmission(mappings_custom_fields[key],
                    ValidateCustomFieldValues(mappings_custom_fields[key],
                                              case.value, project)).written,
         enum_key |-> key]

\* the value of the case's field "custom_f": None, one key, or a list of keys
CaseValueChoices ==
    {[list |-> FALSE, keys |-> <<>>], [list |-> FALSE, keys |-> <<1>>],
     [list |-> FALSE, keys |-> <<3>>], [list |-> TRUE, keys |-> <<1, 2>>],
     [list |-> TRUE, keys |-> <<2, 3>>], [list |-> TRUE, keys |-> <<3>>]}

\* the steps of the base case: a full step, a step without content and an
\* empty step
BaseCase ==
    [id |-> Wide(0, 5), created_by |-> 1, section_id |-> 10, milestone_id |-> 20,
     value |-> [list |-> FALSE, keys |-> <<1>>],
     fields |-> <<"f", "steps_separated">>,
     steps |-> <<[content |-> <<" ", "a">>, expected |-> <<"http://">>],
                 [content |-> <<>>, expected |-> <<"a">>],
                 [content |-> <<" ">>, expected |-> <<>>]>>,
     refs |-> FALSE, estimate |-> FALSE, code |-> ""]

\* what the source may hold: cases that differ in their id,
IdCases == {[BaseCase EXCEPT !.id = i] : i \in CaseIdChoices}

\* in their author, section and milestone (user 2, section 11 and
\* milestone 21 are in no map; 0 stands for None),
ReferenceCases ==
    {[BaseCase EXCEPT !.created_by = u] : u \in {1, 2}}
    \cup {[BaseCase EXCEPT !.section_id = x] : x \in {0, 11}}
    \cup {[BaseCase EXCEPT !.milestone_id = m] : m \in {0, 21}}

\* or in the value of their custom field, the order of their fields, their
\* refs, their estimate and their steps
ValueCases ==
    {[BaseCase EXCEPT !.value = v] : v \in CaseValueChoices}
    \cup {[BaseCase EXCEPT !.value = v, !.fields = <<"steps_separated", "f">>] :
             v \in {[list |-> FALSE, keys |-> <<3>>], [list |-> TRUE, keys |-> <<2, 3>>]}}
    \cup {[BaseCase EXCEPT !.refs = TRUE, !.estimate = TRUE, !.steps = <<>>]}

CasesKeep == UNCHANGED <<preserve_ids, refs_enable, field, qase_fields, fPc, mWork,
                         mappings_custom_fields, refs_id, has_original_id,
                         testrail_original_id_field_id, has_estimate,
                         estimate_field_id, next_qase_id, source_cases,
                         qase_target, lastUpdate>>

\* _prepare_case for one case of a page of the project: the id mapping is
\* stored (add_case_id_mapping, once more after the safety check) and the
\* payload is appended to the page
PrepareCase(case, project, now) ==
    /\ fPc = "done"
    /\ case_id_mapping' =
           LET safe_id == GeneratedId(case.id, now)
               stored == Put(case_id_mapping, case.id, safe_id)
           IN  IF ExceedsMax(safe_id)
               THEN Put(stored, case.id, ModSafe(safe_id)) ELSE stored
    /\ lastCase' = [case EXCEPT !.code = project.code]
    /\ lastPayload' = PreparedCase(case, project, now)
    /\ lastLookup' = NoLookup
    /\ CasesKeep
    /\ ImportOnly

\* Mappings.get_qase_case_id(testrail_id):
\* self.case_id_mapping.get(testrail_id, testrail_id)
get_qase_case_id(testrail_id) ==
    IF testrail_id \in DOMAIN case_id_mapping
    THEN case_id_mapping[testrail_id] ELSE testrail_id

\* a caller looks a source case id up
GetQaseCaseId(testrail_id) ==
    /\ fPc = "done"
    /\ lastLookup' = [called |-> TRUE, testrail_id |-> testrail_id,
                      result |-> get_qase_case_id(testrail_id)]
    /\ lastCase' = NoCase
    /\ lastPayload' = NoPayload
    /\ case_id_mapping' = case_id_mapping
    /\ CasesKeep
    /\ ImportOnly

CasesNext ==
    \/ \E case \in source_cases : \E project \in ProjectChoices : \E now \in NowChoices :
           PrepareCase(case, project, now)
    \/ \E testrail_id \in CaseIdChoices : GetQaseCaseId(testrail_id)

---------------------------------------------------------------------------
(* TestrailApiClient.send_request (api/testrail.py) *)

\* the model explores max_retries in 0..MaxRetries (the constructor's default
\* is 7)
MaxRetries == 2

\* backoff_factor=5
backoff_factor == 5

\* what request_method(url, ...) gives in one iteration: a response with a
\* status code (json = FALSE when its body is not JSON), one of the
\* exceptions of the except clause, or another exception of requests
StatusChoices == {200, 201, 400, 401, 403, 404, 429, 500, 502, 503, 504}

CaughtExceptions ==
    {"Timeout", "RemoteDisconnected", "ConnectionResetError", "ConnectionError"}

OutcomeChoices ==
    {[kind |-> "response", status_code |-> s, json |-> TRUE] : s \in StatusChoices}
    \cup {[kind |-> "response", status_code |-> 200, json |-> FALSE]}
    \cup {[kind |-> e, status_code |-> 0, json |-> FALSE] :
             e \in CaughtExceptions \cup {"ChunkedEncodingError"}}

\* RateLimiter.get_retry_delay of a limiter built with rpm requests per
\* minute: max(self.min_interval, 1.0), 1.0 when the limiter is disabled
get_retry_delay(rpm) ==
    IF rpm > 0 /\ 60 \div rpm > 1 THEN 60 \div rpm ELSE 1

ReqInit ==
    /\ max_retries \in 0..MaxRetries
    /\ rate \in RpmChoices
    /\ rqPc = "loop"
    /\ attempt = 0
    /\ outcomes = <<>>
    /\ slept = <<>>

ReqParked ==
    /\ max_retries = 0
    /\ rate = 0
    /\ rqPc = "parked"
    /\ attempt = 0
    /\ outcomes = <<>>
    /\ slept = <<>>

\* how the iteration that saw the outcome leaves the loop body: "continue"
\* (line 90), "return", "APIError" (lines 95, 98), "raise" for an exception
\* the except clause does not name, and "next" when the body runs on to the
\* check of line 106
BodyExit(outcome) ==
    IF outcome.kind = "response"
    THEN IF outcome.status_code = 429 THEN "continue"
         ELSE IF outcome.status_code <= 201 THEN "return"
         ELSE IF outcome.status_code \in {403, 400} THEN "APIError"
         ELSE "next"
    ELSE IF outcome.kind \in CaughtExceptions THEN "next"
    ELSE "raise"

\* one iteration of 'for attempt in range(self.max_retries + 1)' and, after
\* the last one, the end of the function. rqPc becomes "returned" (the parsed
\* response), "APIError", "raised" (another exception) or "none" (the loop
\* ran out and the function returned None). The wait of
\* rate_limiter.wait_if_needed() delays the request and changes nothing here.
SendRequest(outcome) ==
    /\ rqPc = "loop"
    /\ outcomes' = Append(outcomes, outcome)
    /\ slept' =
           IF BodyExit(outcome) = "continue"
           THEN Append(slept, get_retry_delay(rate))
           ELSE IF BodyExit(outcome) = "next"
           THEN Append(slept, backoff_factor * (2 ^ attempt))
           ELSE slept
    /\ rqPc' =
           CASE BodyExit(outcome) = "continue" ->
                    IF attempt = max_retries THEN "none" ELSE "loop"
             [] BodyExit(outcome) = "return" ->
                    IF outcome.json THEN "returned" ELSE "APIError"
             [] BodyExit(outcome) = "APIError" -> "APIError"
             [] BodyExit(outcome) = "raise" -> "raised"
             [] OTHER -> IF attempt = max_retries THEN "APIError" ELSE "loop"
    /\ attempt' = IF rqPc' = "loop" THEN attempt + 1 ELSE attempt
    /\ UNCHANGED <<max_retries, rate>>
    /\ ReqOnly

ReqNext == \E outcome \in OutcomeChoices : SendRequest(outcome)

---------------------------------------------------------------------------
(* The run-sync script (Scenario 1/sync_qase_runs.py) *)

\* CF_SOURCE = os.getenv("CF_SOURCE", "").strip().lower()
CfSourceChoices == {"", "project_a", "project_b"}

\* a case of a project as the script sees it: its id, the value of the
\* linking custom field that extract_cf_value_from_case finds in the listing
\* and in GET /case/{code}/{id} (0 for None), and its title
SyncCase(id, listed, full, title) ==
    [id |-> id, listed |-> listed, full |-> full, title |-> title]

TitleChoices == {<<"T">>, <<" ", "t">>, <<"u">>, <<>>}

\* the cases of project B (ids 11, 12); the field holds the id of a case of A
CasesBChoices ==
    {<<>>}
    \cup {<<SyncCase(11, l, f, t)>> : l \in {0, 21}, f \in {0, 21}, t \in TitleChoices}
    \cup {<<SyncCase(11, 0, 0, <<"T">>), SyncCase(12, l, 22, <<"u">>)>> : l \in {0, 22}}

\* the cases of project A (ids 21, 22); the field holds the id of a case of B
CasesAChoices ==
    {<<>>}
    \cup {<<SyncCase(21, l, f, t)>> : l \in {0, 11}, f \in {0, 11}, t \in TitleChoices}
    \cup {<<SyncCase(21, 11, 0, <<"t">>), SyncCase(22, 11, 0, <<"u">>)>>}

\* get_run_results_b: one result per case 11, 12 and one of a case 13
RunResultsB ==
    <<[case_id |-> 11, status |-> "passed"], [case_id |-> 12, status |-> "failed"],
      [case_id |-> 13, status |-> "passed"]>>

\* normalize_title on titles over {"T", "t", "u", " "}: whitespace runs
\* become one space, then strip().lower()
normalize_title(s) ==
    LET squeezed == SelectSeq([i \in 1..Len(s) |-> <<i, s[i]>>],
                              LAMBDA p : ~(p[2] = " " /\ p[1] > 1 /\ s[p[1] - 1] = " "))
        stripped == Strip([i \in 1..Len(squeezed) |-> squeezed[i][2]])
    IN  [i \in 1..Len(stripped) |-> IF stripped[i] = "T" THEN "t" ELSE stripped[i]]

RECURSIVE PairsOf(_)
\* 'for c in cases: ... mapping[int(b_id)] = int(a_id)' over the <<b_id,
\* a_id>> of the cases, in order: a pair is stored when both are truthy, and
\* a later case overwrites an earlier one
PairsOf(ids) ==
    IF ids = <<>> THEN <<>>
    ELSE LET before == PairsOf(SubSeq(ids, 1, Len(ids) - 1))
             last == ids[Len(ids)]
         IN  IF last[1] # 0 /\ last[2] # 0 THEN Put(before, last[1], last[2])
             ELSE before

\* the mapping one block of build_mapping_by_custom_field builds from the
\* project's cases: from the listing, and from GET /case/{code}/{id} per case
\* when the listing gave no pair
BlockMapping(cases, b_to_a) ==
    LET from_listing ==
            PairsOf([i \in 1..Len(cases) |->
                        IF b_to_a THEN <<cases[i].id, cases[i].listed>>
                        ELSE <<cases[i].listed, cases[i].id>>])
    IN  IF from_listing = <<>> /\ cases # <<>>
        THEN PairsOf([i \in 1..Len(cases) |->
                         IF b_to_a THEN <<cases[i].id, cases[i].full>>
                         ELSE <<cases[i].full, cases[i].id>>])
        ELSE from_listing

\* build_mapping_by_title over the two listings
MappingByTitle ==
    LET title_to_a_id(t) ==
            LET with == {i \in 1..Len(cases_a) :
                            /\ normalize_title(cases_a[i].title) = t
                            /\ cases_a[i].id # 0}
            IN  IF with = {} \/ t = <<>> THEN 0
                ELSE cases_a[CHOOSE i \in with : \A j \in with : j <= i].id
    IN  PairsOf([i \in 1..Len(cases_b) |->
                    <<cases_b[i].id, title_to_a_id(normalize_title(cases_b[i].title))>>])

SyncInit ==
    /\ CF_SOURCE \in CfSourceChoices
    /\ cases_a \in CasesAChoices
    /\ cases_b \in CasesBChoices
    /\ http_errors \in SUBSET {"A", "B"}
    /\ syPc = "project_b"
    /\ steps = <<>>
    /\ mapping = <<>>
    /\ synced = <<>>
    /\ skipped = <<>>

SyncParked ==
    /\ CF_SOURCE = ""
    /\ cases_a = <<>>
    /\ cases_b = <<>>
    /\ http_errors = {}
    /\ syPc = "parked"
    /\ steps = <<>>
    /\ mapping = <<>>
    /\ synced = <<>>
    /\ skipped = <<>>

SyncKeep == UNCHANGED <<CF_SOURCE, cases_a, cases_b, http_errors>>

\* where build_case_mapping_b_to_a goes when build_mapping_by_custom_field
\* returned the mapping
AfterCustomField(m) == IF m # <<>> THEN "results" ELSE "title"

\* build_mapping_by_custom_field, the block '# --- B -> A ---': skipped when
\* CF_SOURCE is "project_a"; left by the except clause when list_cases
\* raises HTTPError; otherwise it ends with 'return mapping'
ProjectBBlock ==
    /\ syPc = "project_b"
    /\ IF CF_SOURCE = "project_a"
       THEN /\ syPc' = "project_a"
            /\ UNCHANGED <<steps, mapping>>
       ELSE /\ steps' = Append(steps, "project_b")
            /\ IF "B" \in http_errors
               THEN /\ syPc' = "project_a"
                    /\ UNCHANGED mapping
               ELSE /\ mapping' = BlockMapping(cases_b, TRUE)
                    /\ syPc' = AfterCustomField(mapping')
    /\ UNCHANGED <<synced, skipped>>
    /\ SyncKeep
    /\ SyncOnly

\* the block '# --- A -> B ---' and the final 'return {}'
ProjectABlock ==
    /\ syPc = "project_a"
    /\ IF CF_SOURCE = "project_b"
       THEN /\ syPc' = "title"
            /\ UNCHANGED <<steps, mapping>>
       ELSE /\ steps' = Append(steps, "project_a")
            /\ IF "A" \in http_errors
               THEN /\ syPc' = "title"
                    /\ UNCHANGED mapping
               ELSE /\ mapping' = BlockMapping(cases_a, FALSE)
                    /\ syPc' = AfterCustomField(mapping')
    /\ UNCHANGED <<synced, skipped>>
    /\ SyncKeep
    /\ SyncOnly

\* build_mapping_by_title and the end of build_case_mapping_b_to_a: an
\* HTTPError of a listing is not caught; an empty mapping raises RuntimeError
BuildMappingByTitle ==
    /\ syPc = "title"
    /\ steps' = Append(steps, "title")
    /\ IF http_errors # {}
       THEN /\ syPc' = "HTTPError"
            /\ UNCHANGED mapping
       ELSE /\ mapping' = MappingByTitle
            /\ syPc' = IF mapping' # <<>> THEN "results" ELSE "RuntimeError"
    /\ UNCHANGED <<synced, skipped>>
    /\ SyncKeep
    /\ SyncOnly

\* one iteration of the loop of sync_run_results over the results of run B;
\* posted = FALSE when post_result_to_run_a raises HTTPError
SyncResult(posted) ==
    /\ syPc = "results"
    /\ LET r == RunResultsB[Len(synced) + Len(skipped) + 1]
       IN  IF r.case_id \notin DOMAIN mapping
           THEN /\ posted
                /\ skipped' = Append(skipped, r.case_id)
                /\ UNCHANGED synced
           ELSE IF posted
           THEN /\ synced' = Append(synced, [b_case_id |-> r.case_id,
                                             a_case_id |-> mapping[r.case_id]])
                /\ UNCHANGED skipped
           ELSE /\ skipped' = Append(skipped, r.case_id)
                /\ UNCHANGED synced
    /\ syPc' = IF Len(synced') + Len(skipped') = Len(RunResultsB) THEN "done" ELSE "results"
    /\ UNCHANGED <<steps, mapping>>
    /\ SyncKeep
    /\ SyncOnly

SyncNext ==
    \/ ProjectBBlock
    \/ ProjectABlock
    \/ BuildMappingByTitle
    \/ \E posted \in BOOLEAN : SyncResult(posted)

---------------------------------------------------------------------------
(* Attachments.replace_attachments, check_and_replace_attachments_array   *)
(* and replace_failover (entities/attachments.py)                          *)

(* A string is a sequence of tokens [kind, id, upload]: "text" is any text *)
(* without a reference, "ref" is '![](index.php?/attachments/get/<id>)',   *)
(* "link" is 'index.php?/attachments/get/<id>' outside of '![](...)', and  *)
(* "image" is '![<filename>](<url>)' of the upload with that number.       *)
Tok(kind, id) == [kind |-> kind, id |-> id, upload |-> 0]

\* the threads of import_project_data that prepare cases and results of
\* different projects (ThreadPoolExecutor, Scenario 2)
ReplThreads == {1, 2}

\* the calls: check_and_replace_attachments on a string that holds a
\* reference or a link, check_and_replace_attachments_array on a list of ids
JobChoices ==
    {[kind |-> "string", string |-> s, attachments |-> <<>>] :
        s \in {<<Tok("ref", 1)>>, <<Tok("ref", 1), Tok("ref", 2)>>,
               <<Tok("ref", 2), Tok("text", 0), Tok("ref", 1)>>,
               <<Tok("ref", 1), Tok("ref", 1)>>, <<Tok("link", 1)>>}}
    \cup {[kind |-> "array", string |-> <<>>, attachments |-> a] :
             a \in {<<1>>, <<2, 1>>}}

\* what the bulk import left in attachments_map: nothing, or attachment 2
MapChoices == {<<>>, (2 :> [upload |-> 0])}

ReplInit ==
    /\ mappings_attachments_map \in MapChoices
    /\ job \in [ReplThreads -> JobChoices]
    /\ rpPc = [t \in ReplThreads |-> "call"]
    /\ string = [t \in ReplThreads |-> job[t].string]
    /\ matches = [t \in ReplThreads |-> <<>>]
    /\ qase_attachment = [t \in ReplThreads |-> 0]
    /\ result = [t \in ReplThreads |-> <<>>]
    /\ map_before = [t \in ReplThreads |-> {}]
    /\ uploads = <<>>

ReplParked ==
    /\ mappings_attachments_map = <<>>
    /\ job = <<>>
    /\ rpPc = <<>>
    /\ string = <<>>
    /\ matches = <<>>
    /\ qase_attachment = <<>>
    /\ result = <<>>
    /\ map_before = <<>>
    /\ uploads = <<>>

\* re.finditer(self.pattern, string): the ids of the references, in order
PatternMatches(s) ==
    LET refs == SelectSeq(s, LAMBDA tok : tok.kind = "ref")
    IN  [n \in 1..Len(refs) |-> refs[n].id]

\* replace_string: re.sub of every reference to the attachment by
\* '![filename](url)' of attachments_map[attachment_id]
replace_string(s, attachment_id) ==
    [n \in 1..Len(s) |->
        IF s[n].kind = "ref" /\ s[n].id = attachment_id
        THEN [kind |-> "image", id |-> attachment_id,
              upload |-> mappings_attachments_map[attachment_id].upload]
        ELSE s[n]]

\* the call begins: replace_attachments lists the matches of the string,
\* check_and_replace_attachments_array walks its list
BeginCall(t) ==
    /\ rpPc[t] = "call"
    /\ matches' = [matches EXCEPT ![t] =
                      IF job[t].kind = "string" THEN PatternMatches(job[t].string)
                      ELSE job[t].attachments]
    /\ map_before' = [map_before EXCEPT ![t] = DOMAIN mappings_attachments_map]
    /\ rpPc' = [rpPc EXCEPT ![t] = "loop"]
    /\ UNCHANGED <<mappings_attachments_map, job, string, qase_attachment, result, uploads>>
    /\ ReplOnly

\* the head of an iteration: 'if attachment_id not in
\* self.mappings.attachments_map'; the call returns when the loop is over
NextAttachment(t) ==
    /\ rpPc[t] = "loop"
    /\ rpPc' = [rpPc EXCEPT ![t] =
                   IF matches[t] = <<>> THEN "done"
                   ELSE IF Head(matches[t]) \notin DOMAIN mappings_attachments_map
                   THEN "failover" ELSE "replace"]
    /\ UNCHANGED <<mappings_attachments_map, job, string, matches, qase_attachment,
                   result, map_before, uploads>>
    /\ ReplOnly

\* replace_failover up to the upload: testrail.get_attachment and
\* qase.upload_attachment; ok = FALSE when one of them raises or the upload
\* returns nothing
Failover(t, ok) ==
    /\ rpPc[t] = "failover"
    /\ uploads' = IF ok THEN Append(uploads, [id |-> Head(matches[t]), by |-> t])
                  ELSE uploads
    /\ qase_attachment' = [qase_attachment EXCEPT ![t] = IF ok THEN Len(uploads') ELSE 0]
    /\ rpPc' = [rpPc EXCEPT ![t] = IF ok THEN "write" ELSE "replace"]
    /\ UNCHANGED <<mappings_attachments_map, job, string, matches, result, map_before>>
    /\ ReplOnly

\* 'self.mappings.attachments_map[attachment_id] = qase_attachment'
FailoverWrite(t) ==
    /\ rpPc[t] = "write"
    /\ mappings_attachments_map' =
           Put(mappings_attachments_map, Head(matches[t]),
               [upload |-> qase_attachment[t]])
    /\ rpPc' = [rpPc EXCEPT ![t] = "replace"]
    /\ UNCHANGED <<job, string, matches, qase_attachment, result, map_before, uploads>>
    /\ ReplOnly

\* the rest of the iteration. replace_attachments: replace_string, whose
\* 'attachments_map[attachment_id]' raises KeyError for an id that is still
\* absent; the except clause of replace_attachments then ends the loop.
\* check_and_replace_attachments_array: the hash is appended when the id is
\* in the map.
Replace(t) ==
    /\ rpPc[t] = "replace"
    /\ LET attachment_id == Head(matches[t])
           present == attachment_id \in DOMAIN mappings_attachments_map
       IN  /\ string' = [string EXCEPT ![t] =
                            IF job[t].kind = "string" /\ present
                            THEN replace_string(string[t], attachment_id) ELSE @]
           /\ result' = [result EXCEPT ![t] =
                            IF job[t].kind = "array" /\ present
                            THEN Append(@, mappings_attachments_map[attachment_id].upload)
                            ELSE @]
           /\ rpPc' = [rpPc EXCEPT ![t] =
                          IF job[t].kind = "string" /\ ~present THEN "done" ELSE "loop"]
    /\ matches' = [matches EXCEPT ![t] = Tail(@)]
    /\ UNCHANGED <<mappings_attachments_map, job, qase_attachment, map_before, uploads>>
    /\ ReplOnly

ReplNext ==
    \E t \in ReplThreads :
        \/ BeginCall(t)
        \/ NextAttachment(t)
        \/ \E ok \in BOOLEAN : Failover(t, ok)
        \/ FailoverWrite(t)
        \/ Replace(t)

---------------------------------------------------------------------------
(* TestrailApiClient.get_attachments_list and fetch_data (api/testrail.py) *)

(* Offsets are counted in pages: the offset of the code is page_size times *)
(* the offset of the model. A page that holds records holds one record,    *)
(* named by its page.                                                      *)

\* max_workers = 24 in the code
ListWorkers == 2

\* total_items / page_size = 120000 / 30 in the code
ListTotalPages == 4

ListInit ==
    /\ source_pages \in 0..ListTotalPages
    /\ alPc = "submit"
    /\ fetched = <<>>
    /\ fetch_results = <<>>
    /\ futures = {}
    /\ batch = {}
    /\ stop = FALSE
    /\ next_offset = 0
    /\ attachments = <<>>
    /\ submitted_at_no_data = -1

ListParked ==
    /\ source_pages = 0
    /\ alPc = "parked"
    /\ fetched = <<>>
    /\ fetch_results = <<>>
    /\ futures = {}
    /\ batch = {}
    /\ stop = FALSE
    /\ next_offset = 0
    /\ attachments = <<>>
    /\ submitted_at_no_data = -1

\* 'futures = [executor.submit(self.fetch_data, offset) for offset in
\* range(0, max_workers * self.page_size, self.page_size)]'
SubmitFirst ==
    /\ alPc = "submit"
    /\ fetched' = [n \in 1..ListWorkers |-> n - 1]
    /\ fetch_results' = [n \in 1..ListWorkers |-> "pending"]
    /\ futures' = 1..ListWorkers
    /\ alPc' = "while"
    /\ UNCHANGED <<source_pages, batch, stop, next_offset, attachments,
                   submitted_at_no_data>>
    /\ ListOnly

\* fetch_data in a worker thread: the list of the page's records, or None
\* when the request or the reading of response_data['data'] raised. What the
\* source answers beyond its last page is not fixed by the code: a 'data'
\* list without records, or an answer that makes fetch_data raise.
FetchData(f, raises) ==
    /\ alPc \in {"while", "for"}
    /\ f \in DOMAIN fetch_results
    /\ fetch_results[f] = "pending"
    /\ fetch_results' = [fetch_results EXCEPT ![f] =
                            IF raises THEN "None"
                            ELSE IF fetched[f] < source_pages THEN "records"
                            ELSE "empty"]
    /\ UNCHANGED <<source_pages, alPc, fetched, futures, batch, stop, next_offset,
                   attachments, submitted_at_no_data>>
    /\ ListOnly

\* 'while futures:' and the call as_completed(futures), which yields the
\* futures the list holds at the call; 'return attachments' when it is empty
AsCompleted ==
    /\ alPc = "while"
    /\ alPc' = IF futures = {} THEN "done" ELSE "for"
    /\ batch' = futures
    /\ UNCHANGED <<source_pages, fetched, fetch_results, futures, stop, next_offset,
                   attachments, submitted_at_no_data>>
    /\ ListOnly

\* the body of 'for future in as_completed(futures)' for a completed future
HandleFuture(f) ==
    /\ alPc = "for"
    /\ f \in batch
    /\ fetch_results[f] # "pending"
    /\ LET given == fetch_results[f] # "None"
           advanced == IF given /\ ~stop THEN next_offset + 1 ELSE next_offset
           submits == given /\ ~stop /\ advanced < ListTotalPages
       IN  /\ stop' = (stop \/ ~given \/ (given /\ ~stop /\ ~submits))
           /\ attachments' = IF fetch_results[f] = "records"
                             THEN Append(attachments, fetched[f]) ELSE attachments
           /\ next_offset' = advanced
           /\ fetched' = IF submits THEN Append(fetched, advanced) ELSE fetched
           /\ fetch_results' = IF submits THEN Append(fetch_results, "pending")
                               ELSE fetch_results
           /\ futures' = (futures \ {f}) \cup (IF submits THEN {Len(fetched) + 1} ELSE {})
           /\ submitted_at_no_data' =
                  IF submitted_at_no_data = -1 /\ fetch_results[f] # "records"
                  THEN Len(fetched') ELSE submitted_at_no_data
    /\ batch' = batch \ {f}
    /\ alPc' = IF batch' = {} THEN "while" ELSE "for"
    /\ UNCHANGED source_pages
    /\ ListOnly

ListNext ==
    \/ SubmitFirst
    \/ \E f \in 1..(ListWorkers + ListTotalPages) : \E raises \in BOOLEAN :
           FetchData(f, raises)
    \/ AsCompleted
    \/ \E f \in 1..(ListWorkers + ListTotalPages) : HandleFuture(f)

---------------------------------------------------------------------------
(* System enums: Fields._create_types_map, _create_priorities_map and      *)
(* _create_result_statuses_map (entities/fields.py), Cases._set_priority   *)
(* and _set_type (entities/cases.py); run results:                         *)
(* QaseService.send_bulk_results, send_bulk_results_v2 and                 *)
(* prepare_result_steps (service/qase.py)                                  *)

\* str.lower() on the labels of the model
Lower_CaseSensitive(s) == s

Lower(s) ==
    LET table == ("Other" :> "other") @@ ("OTHER" :> "other")
                 @@ ("Functional" :> "functional") @@ ("Smoke" :> "smoke")
                 @@ ("High" :> "high") @@ ("HIGH" :> "high") @@ ("Low" :> "low")
                 @@ ("Medium" :> "medium") @@ ("Critical" :> "critical")
                 @@ ("Passed" :> "passed") @@ ("Failed" :> "failed")
                 @@ ("FAILED" :> "failed") @@ ("Blocked" :> "blocked")
                 @@ ("Retest" :> "retest") @@ ("Custom" :> "custom")
    IN  IF s \in DOMAIN table THEN table[s] ELSE s

\* testrail.get_case_types(), get_priorities() and get_result_statuses()
tr_types == <<[id |-> 1, name |-> "Other"], [id |-> 2, name |-> "Functional"],
              [id |-> 3, name |-> "Smoke"]>>
tr_priorities == <<[id |-> 1, name |-> "Low"], [id |-> 2, name |-> "HIGH"],
                   [id |-> 3, name |-> "Critical"]>>
tr_statuses == <<[id |-> 1, label |-> "Passed"], [id |-> 2, label |-> "Blocked"],
                 [id |-> 4, label |-> "Retest"], [id |-> 5, label |-> "FAILED"],
                 [id |-> 6, label |-> "Custom"]>>

Option(id, title, slug) == [id |-> id, title |-> title, slug |-> slug]

\* the options the target may hold for its system fields
SystemFieldsChoices ==
    [priority : {<<Option(1, "High", ""), Option(2, "Medium", ""), Option(3, "Low", "")>>,
                 <<Option(1, "low", ""), Option(2, "high", "")>>,
                 <<Option(1, "Medium", "")>>},
     type : {<<Option(1, "other", ""), Option(2, "Functional", "")>>,
             <<Option(7, "OTHER", ""), Option(8, "other", "")>>},
     result_status :
         {<<Option(1, "Passed", "passed"), Option(2, "Failed", "failed"),
            Option(3, "Blocked", "blocked"), Option(4, "Retest", "retest")>>,
          <<Option(1, "passed", "passed"), Option(5, "custom", "")>>}]

\* the index of the last option whose title equals the label, compared in
\* lower case (the loops over the options have no break); 0 for none
LastMatch(label, options) ==
    LET hits == {i \in 1..Len(options) : Lower(label) = Lower(options[i].title)}
    IN  IF hits = {} THEN 0 ELSE CHOOSE i \in hits : \A j \in hits : j <= i

NoSet == [called |-> FALSE, priority_id |-> 0, type_id |-> 0, priority |-> 0, type |-> 0]

NoRun == [created_on |-> 0, version |-> 0]

ResInit ==
    /\ system_fields \in SystemFieldsChoices
    /\ maps_built = {}
    /\ mappings_types = <<>>
    /\ mappings_priorities = <<>>
    /\ mappings_default_priority = 1
    /\ mappings_result_statuses = <<>>
    /\ lastSet = NoSet
    /\ tr_run = NoRun
    /\ results = <<>>
    /\ res = <<>>

ResParked ==
    /\ system_fields = <<>>
    /\ maps_built = {}
    /\ mappings_types = <<>>
    /\ mappings_priorities = <<>>
    /\ mappings_default_priority = 1
    /\ mappings_result_statuses = <<>>
    /\ lastSet = NoSet
    /\ tr_run = NoRun
    /\ results = <<>>
    /\ res = <<>>

\* a behaviour follows one call made after the maps are built: the calls
\* read the maps and leave nothing behind for the next call
Observed == lastSet.called \/ tr_run.version # 0

ResKeep == UNCHANGED <<system_fields, lastSet, tr_run, results, res>>

\* _create_types_map
CreateTypesMap ==
    /\ "types" \notin maps_built
    /\ maps_built' = maps_built \cup {"types"}
    /\ mappings_types' =
           [id \in {tr_types[n].id : n \in 1..Len(tr_types)} |->
               LET tr_type == tr_types[CHOOSE n \in 1..Len(tr_types) : tr_types[n].id = id]
                   m == LastMatch(tr_type.name, system_fields.type)
               IN  IF m = 0 THEN 1 ELSE system_fields.type[m].id]
    /\ UNCHANGED <<mappings_priorities, mappings_default_priority,
                   mappings_result_statuses>>
    /\ ResKeep
    /\ ResOnly

\* _create_priorities_map: the default is the id of the first target
\* priority titled 'high', 1 when there is none; mappings.default_priority is
\* assigned only when one is found
CreatePrioritiesMap ==
    /\ "priorities" \notin maps_built
    /\ maps_built' = maps_built \cup {"priorities"}
    /\ LET qase_priorities == system_fields.priority
           high == {i \in 1..Len(qase_priorities) :
                       Lower(qase_priorities[i].title) = "high"}
           default_priority ==
               IF high = {} THEN 1
               ELSE qase_priorities[CHOOSE i \in high : \A j \in high : i <= j].id
       IN  /\ mappings_default_priority' =
                  IF high = {} THEN mappings_default_priority ELSE default_priority
           /\ mappings_priorities' =
                  [id \in {tr_priorities[n].id : n \in 1..Len(tr_priorities)} |->
                      LET tr_priority ==
                              tr_priorities[CHOOSE n \in 1..Len(tr_priorities) :
                                                tr_priorities[n].id = id]
                          m == LastMatch(tr_priority.name, qase_priorities)
                      IN  IF m = 0 THEN default_priority ELSE qase_priorities[m].id]
    /\ UNCHANGED <<mappings_types, mappings_result_statuses>>
    /\ ResKeep
    /\ ResOnly

\* _create_result_statuses_map: the value is the slug of the matching option
CreateResultStatusesMap ==
    /\ "result_statuses" \notin maps_built
    /\ maps_built' = maps_built \cup {"result_statuses"}
    /\ mappings_result_statuses' =
           [id \in {tr_statuses[n].id : n \in 1..Len(tr_statuses)} |->
               LET tr_status ==
                       tr_statuses[CHOOSE n \in 1..Len(tr_statuses) : tr_statuses[n].id = id]
                   m == LastMatch(tr_status.label, system_fields.result_status)
               IN  IF m = 0 THEN "skipped" ELSE system_fields.result_status[m].slug]
    /\ UNCHANGED <<mappings_types, mappings_priorities, mappings_default_priority>>
    /\ ResKeep
    /\ ResOnly

\* Cases._set_priority and Cases._set_type for one case
SetPriorityAndType(priority_id, type_id) ==
    /\ maps_built = {"types", "priorities", "result_statuses"}
    /\ ~Observed
    /\ lastSet' =
           [called |-> TRUE, priority_id |-> priority_id, type_id |-> type_id,
            priority |-> IF priority_id \in DOMAIN mappings_priorities
                         THEN mappings_priorities[priority_id]
                         ELSE mappings_default_priority,
            type |-> IF type_id \in DOMAIN mappings_types
                     THEN mappings_types[type_id] ELSE 1]
    /\ tr_run' = NoRun
    /\ results' = <<>>
    /\ res' = <<>>
    /\ UNCHANGED <<system_fields, maps_built, mappings_types, mappings_priorities,
                   mappings_default_priority, mappings_result_statuses>>
    /\ ResOnly

\* convert_to_seconds: time_str.split() is a sequence of components
\* [number, unit]; number = -1 stands for text int() rejects: the exception
\* ends the loop and the sum so far is returned; a component with another
\* unit adds nothing
RECURSIVE convert_to_seconds(_)
convert_to_seconds(components) ==
    IF components = <<>> THEN 0
    ELSE LET component == Head(components)
             factor == CASE component.unit = "day" -> 86400
                         [] component.unit = "hr" -> 3600
                         [] component.unit = "min" -> 60
                         [] component.unit = "sec" -> 1
                         [] OTHER -> 0
         IN  IF factor = 0 THEN convert_to_seconds(Tail(components))
             ELSE IF component.number = -1 THEN 0
             ELSE component.number * factor + convert_to_seconds(Tail(components))

\* 'elapsed' of send_bulk_results: result.elapsed is None, a number, or a
\* string
Elapsed(tr_result) ==
    CASE tr_result.elapsed.type = "none" -> 0
      [] tr_result.elapsed.type = "int" -> tr_result.elapsed.number
      [] OTHER -> convert_to_seconds(tr_result.elapsed.components)

StartTime_NoFloor(tr_result, run) ==
    IF tr_result.created_on # 0 THEN tr_result.created_on - Elapsed(tr_result)
    ELSE run.created_on

\* 'start_time' of send_bulk_results; created_on = 0 stands for a result
\* without created_on
StartTime(tr_result, run) ==
    IF tr_result.created_on # 0
    THEN IF tr_result.created_on - Elapsed(tr_result) < run.created_on
         THEN run.created_on ELSE tr_result.created_on - Elapsed(tr_result)
    ELSE run.created_on

\* dict.get(key, default) on mappings.result_statuses, whose keys are the
\* integers tr_status['id']: a key that is a str equals none of them
StatusMapGet(key, default) ==
    IF key.type = "int" /\ key.value \in DOMAIN mappings_result_statuses
    THEN mappings_result_statuses[key.value] ELSE default

\* prepare_result_steps and prepare_result_steps_v2: the lookup key is
\* str(step.get('status_id'))
prepare_result_steps(steps_in) ==
    [k \in 1..Len(steps_in) |->
        LET status == StatusMapGet([type |-> "str", value |-> steps_in[k].status_id],
                                   "skipped")
        IN  [status |-> IF status \in {"passed", "failed", "blocked", "skipped"}
                        THEN status ELSE "skipped"]]

\* the entry of 'res' for one result
ResultData(n, tr_result, run) ==
    LET status_id == [type |-> "int", value |-> tr_result.status_id]
    IN  [source |-> n,
         test_id |-> tr_result.test_id,
         status |-> IF tr_result.status_id # 0
                       /\ StatusMapGet(status_id, "") # ""
                    THEN StatusMapGet(status_id, "") ELSE "skipped",
         has_start_time |-> run.version = 2 \/ StartTime(tr_result, run) # 0,
         start_time |-> StartTime(tr_result, run),
         has_steps |-> tr_result.custom_step_results # <<>>,
         steps |-> prepare_result_steps(tr_result.custom_step_results)]

\* cases_map of the run: test 1 is in it, test 2 is not
cases_map == (1 :> 101)

BaseResult ==
    [status_id |-> 1, test_id |-> 1, created_on |-> 200,
     elapsed |-> [type |-> "none", number |-> 0, components |-> <<>>],
     custom_step_results |-> <<>>]

\* the results of a run: status_id 0 stands for None, 3 is 'untested', 9 is
\* in no map
ResultChoices ==
    {[BaseResult EXCEPT !.status_id = s] : s \in {0, 1, 3, 5, 6, 9}}
    \cup {[BaseResult EXCEPT !.test_id = 2]}
    \cup {[BaseResult EXCEPT !.created_on = c, !.elapsed = e] :
             c \in {0, 60, 200},
             e \in {[type |-> "int", number |-> 30, components |-> <<>>],
                    [type |-> "str", number |-> 0,
                     components |-> <<[number |-> 1, unit |-> "min"],
                                      [number |-> 5, unit |-> "sec"]>>],
                    [type |-> "str", number |-> 0,
                     components |-> <<[number |-> 2, unit |-> "hr"],
                                      [number |-> -1, unit |-> "min"]>>]}}
    \cup {[BaseResult EXCEPT !.custom_step_results =
              <<[status_id |-> 1], [status_id |-> 5], [status_id |-> 4],
                [status_id |-> 9]>>]}

\* send_bulk_results (version 1) and send_bulk_results_v2 (version 2) for a
\* run created at created_on and its results
SendBulkResults(version, created_on, results_in) ==
    /\ maps_built = {"types", "priorities", "result_statuses"}
    /\ ~Observed
    /\ tr_run' = [created_on |-> created_on, version |-> version]
    /\ results' = results_in
    /\ res' = LET kept == {n \in 1..Len(results_in) :
                              /\ results_in[n].status_id # 3
                              /\ results_in[n].test_id \in DOMAIN cases_map}
                  RECURSIVE Collect(_)
                  Collect(n) ==
                      IF n > Len(results_in) THEN <<>>
                      ELSE (IF n \in kept
                            THEN <<ResultData(n, results_in[n], tr_run')>>
                            ELSE <<>>) \o Collect(n + 1)
              IN  Collect(1)
    /\ lastSet' = NoSet
    /\ UNCHANGED <<system_fields, maps_built, mappings_types, mappings_priorities,
                   mappings_default_priority, mappings_result_statuses>>
    /\ ResOnly

ResNext ==
    \/ CreateTypesMap
    \/ CreatePrioritiesMap
    \/ CreateResultStatusesMap
    \/ \E priority_id \in {1, 2, 3, 9} : \E type_id \in {1, 2, 3, 9} :
           SetPriorityAndType(priority_id, type_id)
    \/ \E version \in {1, 2} : \E created_on \in {100} :
       \E a \in ResultChoices : \E b \in ResultChoices \cup {BaseResult} :
           SendBulkResults(version, created_on,
                           IF b = BaseResult THEN <<a>> ELSE <<a, b>>)

---------------------------------------------------------------------------
(* Specifications *)

Init == OrchInit /\ LimParked /\ PagesParked /\ ImportParked /\ ReqParked /\ TextParked /\ SyncParked /\ ReplParked /\ ListParked /\ ResParked

InitLimiter == LimInit /\ OrchParked /\ PagesParked /\ ImportParked /\ ReqParked /\ TextParked /\ SyncParked /\ ReplParked /\ ListParked /\ ResParked

InitRequest == ReqInit /\ OrchParked /\ LimParked /\ PagesParked /\ ImportParked /\ TextParked /\ SyncParked /\ ReplParked /\ ListParked /\ ResParked

InitText == TextInit /\ ReqParked /\ OrchParked /\ LimParked /\ PagesParked /\ ImportParked /\ SyncParked /\ ReplParked /\ ListParked /\ ResParked

InitSync == SyncInit /\ ReqParked /\ OrchParked /\ LimParked /\ PagesParked /\ ImportParked /\ TextParked /\ ReplParked /\ ListParked /\ ResParked

InitRepl == ReplInit /\ ReqParked /\ OrchParked /\ LimParked /\ PagesParked /\ ImportParked /\ TextParked /\ SyncParked /\ ListParked /\ ResParked

InitList == ListInit /\ ReqParked /\ OrchParked /\ LimParked /\ PagesParked /\ ImportParked /\ TextParked /\ SyncParked /\ ReplParked /\ ResParked

InitResults == ResInit /\ ReqParked /\ OrchParked /\ LimParked /\ PagesParked /\ ImportParked /\ TextParked /\ SyncParked /\ ReplParked /\ ListParked

InitPages == PagesInit /\ OrchParked /\ LimParked /\ ImportParked /\ ReqParked /\ TextParked /\ SyncParked /\ ReplParked /\ ListParked /\ ResParked

InitFields ==
    /\ ImportInit(FieldChoices, ExistingChoices(ValueChoices), {{}})
    /\ OrchParked /\ LimParked /\ PagesParked /\ ReqParked /\ TextParked /\ SyncParked /\ ReplParked /\ ListParked /\ ResParked

\* the fields the cases phase is explored with
CaseFieldChoices ==
    {SourceField(6, <<Config(TRUE, <<>>, ItemsLH)>>),
     SourceField(12, <<Config(FALSE, <<1>>, ItemsPadded)>>),
     SourceField(12, <<Config(FALSE, <<1>>, ItemsLH), Config(FALSE, <<2>>, ItemsPadded)>>),
     SourceField(1, <<Config(TRUE, <<>>, <<>>)>>)}

CaseExistingChoices ==
    {<<>>,
     <<TargetField(30, <<"F">>, "selectbox", ValuesLH, TRUE, {})>>,
     <<TargetField(30, <<"F">>, "multiselect", ValuesLower, TRUE, {})>>,
     <<TargetField(30, <<"F", "A">>, "multiselect", ValuesDup, FALSE, {"A"})>>}

InitCases ==
    /\ \/ ImportInit({SourceField(1, <<Config(TRUE, <<>>, <<>>)>>)}, {<<>>},
                     {IdCases, ReferenceCases})
       \/ ImportInit(CaseFieldChoices, CaseExistingChoices, {ValueCases})
    /\ OrchParked /\ LimParked /\ PagesParked /\ ReqParked /\ TextParked /\ SyncParked /\ ReplParked /\ ListParked /\ ResParked

\* the loop runs in an asyncio task whose awaits all complete: every HTTP call
\* returns or raises after its bounded retries
SpecPages == InitPages /\ [][PagesNext]_vars /\ WF_vars(PagesNext)

SpecLimiter == InitLimiter /\ [][LimNext]_vars

SpecFields == InitFields /\ [][FieldsNext]_vars

NextCases == FieldsNext \/ CasesNext

SpecCases == InitCases /\ [][NextCases]_vars

SpecRequest == InitRequest /\ [][ReqNext]_vars

SpecText == InitText /\ [][FormatLinks]_vars

SpecSync == InitSync /\ [][SyncNext]_vars

SpecRepl == InitRepl /\ [][ReplNext]_vars

SpecList == InitList /\ [][ListNext]_vars

SpecResults == InitResults /\ [][ResNext]_vars

Spec == Init /\ [][OrchNext]_vars

---------------------------------------------------------------------------
(* Claims about the orchestrator *)

\* C1: the global phases run strictly in the order users -> projects ->
\* attachments -> custom fields -> per-project work; a phase begins only when
\* the previous one has returned, and the bulk attachment tasks and the field
\* reconciler's tasks have all finished before any project's work starts.
C1_PhasesStrictlyOrdered ==
    /\ IsPrefix(begun, ExpectedPhases)
    /\ IsPrefix(returned, begun)
    /\ Len(begun) - Len(returned) \in {0, 1}
    /\ attTasks # {} => active = "attachments"
    /\ fieldTasks # {} => active = "fields"
    /\ (\E p \in ProjectIds : projAt[p] # 0) =>
           /\ attTasks = {}
           /\ fieldTasks = {}
           /\ active \in {"per_project", "none"}
           /\ IsPrefix(<<"projects", "attachments", "fields">>,
                       IF users_migrate THEN Tail(returned) ELSE returned)

\* a project is importing its cases after a bulk import that wrote the map
C1_Witness ==
    \E p \in ProjectIds :
        /\ projAt[p] = 5
        /\ attachments_map # {}
        /\ custom_fields # {}

\* C2: for every project the six sub-phases are all executed, in the order
\* configurations -> shared steps -> milestones -> suites -> cases -> runs,
\* in the sequential and in the parallel importer.
C2_AllSubPhasesInOrder ==
    /\ \A p \in ProjectIds : IsPrefix(projLog[p], SubPhases)
    /\ pc \in {"report", "done", "aborted"} =>
           \A p \in Range(projects) : projLog[p] = SubPhases

---------------------------------------------------------------------------
(* Claims about the rate limiter *)

InCriticalSection(t) == thPc[t] \in {"read", "sleeping", "update"}

\* C10: with requests_per_minute > 0 and concurrent callers, two successive
\* grants (values written to last_request_time) are at least min_interval
\* apart, and the read-sleep-update of one caller never overlaps another's.
C10_MinGapBetweenGrants ==
    Enabled =>
        /\ \A i \in 1..(Len(grants) - 1) : grants[i + 1] - grants[i] >= MinInterval
        /\ \A t, u \in Threads :
               InCriticalSection(t) /\ InCriticalSection(u) => t = u
        /\ \A t \in Threads : InCriticalSection(t) => lockHolder = t

\* a second caller arrived too early, slept, and was granted exactly one
\* interval after the first while the other thread was waiting for the lock
C10_Witness ==
    /\ Enabled
    /\ Len(grants) >= 2
    /\ grants[2] - grants[1] = MinInterval
    /\ \E t \in Threads : thPc[t] = "acquire"

---------------------------------------------------------------------------
(* Claims about the pagination loop *)

\* the offsets of all the pages the source holds for the suite
AllOffsets == {k * Limit : k \in 0..(total \div Limit)}

\* C8: a failure of a single entity never aborts its phase; in particular
\* when one page of cases fails to be fetched or prepared, the remaining
\* pages of the same suite are still processed.
C8_RemainingPagesProcessed ==
    pgPc = "done" => AllOffsets \subseteq Range(requested)

C9_Safety ==
    /\ \A i \in 1..Len(requested) : requested[i] = (i - 1) * Limit
    /\ \A i \in 1..(Len(requested) - 1) : sizes[i] = Limit
    /\ (Len(sizes) > 0 /\ sizes[Len(sizes)] < Limit) => pgPc = "done"
    /\ pgPc = "loop" => offset = Len(requested) * Limit

\* C9: the loop requests offsets 0, L, 2L, ... (L = 20 on the enterprise
\* target, 100 otherwise), ends right after the first page shorter than L,
\* never requests a page after a short page, and terminates.
C9_PaginationEndsAtShortPage == []C9_Safety /\ <>(pgPc = "done")

\* a full page was followed by a short, non-empty page, which ended the loop
C9_Witness ==
    /\ pgPc = "done"
    /\ Len(requested) = 2
    /\ sizes[1] = Limit
    /\ sizes[2] > 0
    /\ sizes[2] < Limit
    /\ submitted = {0, Limit}


---------------------------------------------------------------------------
(* Claims about the field reconciler *)

\* the title the items give to a source key
SourceLabel(items, k) == items[CHOOSE i \in 1..Len(items) : items[i].key = k].title

\* the titles qase_values gives to a target value id
TargetLabels(qase_values, v) ==
    {qase_values[i].title : i \in {j \in 1..Len(qase_values) : qase_values[j].id = v}}

\* C7: for every enum field recorded by the reconciler and every entry
\* k -> v of its tr_key_to_qase_id, k is a key of the field's items and the
\* trimmed source label of k equals, case-sensitively, the trimmed title of
\* the target value v in qase_values; a source key without an equal-labelled
\* target value is absent from the map.
C7_MappingByTrimmedLabel ==
    \A key \in DOMAIN mappings_custom_fields :
        LET fd == mappings_custom_fields[key]
        IN  \A k \in DOMAIN fd.tr_key_to_qase_id :
                /\ fd.configs # <<>>
                /\ k \in TrKeys(fd.configs[1].items)
                /\ TargetLabels(fd.qase_values, fd.tr_key_to_qase_id[k]) # {}
                /\ \A title \in TargetLabels(fd.qase_values, fd.tr_key_to_qase_id[k]) :
                       Strip(title) = Strip(SourceLabel(fd.configs[1].items, k))

\* a recorded enum field whose map holds an entry whose two labels differ
\* only in padding, and lacks a source key whose label differs in case from
\* every target title
C7_Witness ==
    \E key \in DOMAIN mappings_custom_fields :
        LET fd == mappings_custom_fields[key]
        IN  /\ fd.has_tr_key_to_qase_id
            /\ fd.configs[1].items = ItemsPadded
            /\ fd.qase_values = ValuesLH
            /\ DOMAIN fd.tr_key_to_qase_id = {1}
            /\ fd.tr_key_to_qase_id[1] = 7

---------------------------------------------------------------------------
(* Claims about case preparation and the mapping store *)

\* C3: every foreign key of a case payload is the value its map holds for
\* the source id, the default user, or omitted; and get_qase_case_id never
\* hands back a source case id that has no entry in case_id_mapping.
C3_ForeignKeysTranslated ==
    /\ lastPayload.prepared =>
           /\ lastPayload.author_id =
                  IF lastCase.created_by \in DOMAIN users
                  THEN users[lastCase.created_by] ELSE default_user
           /\ lastPayload.has_suite =>
                  /\ lastCase.section_id \in DOMAIN suites[lastCase.code]
                  /\ lastPayload.suite_id = suites[lastCase.code][lastCase.section_id]
           /\ lastPayload.has_milestone =>
                  /\ lastCase.code \in DOMAIN milestones
                  /\ lastCase.milestone_id \in DOMAIN milestones[lastCase.code]
                  /\ lastPayload.milestone_id =
                         milestones[lastCase.code][lastCase.milestone_id]
           /\ lastCase.id \in DOMAIN case_id_mapping
    /\ (lastLookup.called /\ lastLookup.testrail_id \notin DOMAIN case_id_mapping) =>
           lastLookup.result # lastLookup.testrail_id

\* C4: every value of case_id_mapping and the id of every case payload is at
\* most 2,147,483,647, for both values of tests.preserve_ids and for source
\* ids on either side of 2^31 - 1.
C4_CaseIdsFitInt32 ==
    /\ \A s \in DOMAIN case_id_mapping :
           /\ case_id_mapping[s].hi = 0
           /\ case_id_mapping[s].lo <= MAX_SAFE_ID
    /\ lastPayload.prepared =>
           /\ lastPayload.id.hi = 0
           /\ lastPayload.id.lo <= MAX_SAFE_ID

\* all four source ids were prepared, the last one an oversize id
C4_Witness ==
    /\ DOMAIN case_id_mapping = CaseIdChoices
    /\ lastPayload.prepared
    /\ lastCase.id = Wide(1, 1)
    /\ case_id_mapping[Wide(1, 1)] = lastPayload.id
    /\ case_id_mapping[Wide(0, MAX_SAFE_ID)].lo > 0

\* C5: each value id written into a case payload for an enum field is an id
\* of that field's qase_values, also when tr_key_to_qase_id is missing or
\* lacks the source key.
C5_EnumValuesInQaseValues ==
    (lastPayload.prepared /\ lastPayload.enum_emitted) =>
        LET fd == mappings_custom_fields[lastPayload.enum_key]
            ids == lastPayload.custom_field[fd.qase_id].ids
        IN  \A n \in 1..Len(ids) :
                \E i \in 1..Len(fd.qase_values) : fd.qase_values[i].id = ids[n]

\* the target field ids the reconciliation recorded: those of the fields in
\* mappings.custom_fields and those of the synthetic fields that exist
RecordedFieldIds ==
    {mappings_custom_fields[k].qase_id : k \in DOMAIN mappings_custom_fields}
    \cup ({refs_id, estimate_field_id} \ {0})
    \cup (IF has_original_id THEN {testrail_original_id_field_id} \ {0} ELSE {})

\* C6: every key of the custom_field map of a case payload is the target id
\* of a field recorded during reconciliation; no key is written for a field
\* whose creation failed (create_custom_field returned 0).
C6_CustomFieldKeysRecorded ==
    lastPayload.prepared => DOMAIN lastPayload.custom_field \subseteq RecordedFieldIds

---------------------------------------------------------------------------
(* Claims about send_request *)

\* the outcomes the retry policy names as transient
Transient(outcome) ==
    \/ outcome.kind \in CaughtExceptions
    \/ outcome.kind = "response" /\ outcome.status_code \in {429, 500, 502, 503, 504}

\* C11: send_request issues another request only after a transient outcome (a
\* timeout, connection reset, remote disconnect, or a status in {429, 500,
\* 502, 503, 504}); any other non-success status is the last outcome of the
\* call, which ends with APIError.
C11_RetryOnlyAfterTransient ==
    \A i \in 1..Len(outcomes) :
        /\ i < Len(outcomes) => Transient(outcomes[i])
        /\ (/\ outcomes[i].kind = "response"
            /\ outcomes[i].status_code > 201
            /\ ~Transient(outcomes[i]))
           => i = Len(outcomes) /\ rqPc = "APIError"

\* C12: a 429 response consumes no attempt: a call that gives up (ends
\* without a response after a transient outcome) has seen max_retries + 1
\* outcomes other than 429, so a call that saw only 429s is still running.
C12_429KeepsBudget ==
    (/\ rqPc \in {"APIError", "none"}
     /\ Transient(outcomes[Len(outcomes)]))
    => Cardinality({i \in 1..Len(outcomes) :
                       ~(outcomes[i].kind = "response"
                         /\ outcomes[i].status_code = 429)}) = max_retries + 1

\* C13: a call ends either by returning the parsed response of a successful
\* attempt or by raising APIError; when the loop runs out after transient
\* failures, a 429 on the last attempt included, APIError is raised.
C13_ReturnsResponseOrRaises ==
    /\ rqPc \in {"loop", "returned", "APIError"}
    /\ rqPc = "returned" =>
           /\ outcomes[Len(outcomes)].kind = "response"
           /\ outcomes[Len(outcomes)].status_code <= 201
           /\ outcomes[Len(outcomes)].json
    /\ (rqPc # "loop" /\ Transient(outcomes[Len(outcomes)])) => rqPc = "APIError"

---------------------------------------------------------------------------
(* Claims about the text formatter *)

\* C14: format_links_as_markdown is idempotent: a text that came out of the
\* formatter is left unchanged by another pass.
C14_FormatLinksIdempotent ==
    passes >= 1 => format_links_as_markdown(text) = text

---------------------------------------------------------------------------
(* Claims about the run-sync script *)

\* C15: the B->A mapping is built as a cascade: the custom field read from
\* project B first; when that gave no pairs and CF_SOURCE does not force
\* project_b, the custom field read from project A; title matching only when
\* the custom-field step gave no pairs; and when every step gave no pairs an
\* error is raised and no result is posted.
C15_MappingCascade ==
    /\ \A i \in 1..Len(steps) : \A j \in 1..Len(steps) :
           (i < j) => <<steps[i], steps[j]>> \in
                          {<<"project_b", "project_a">>, <<"project_b", "title">>,
                           <<"project_a", "title">>}
    /\ ("title" \in Range(steps) /\ CF_SOURCE # "project_b")
       => "project_a" \in Range(steps)
    /\ syPc = "RuntimeError" => mapping = <<>> /\ synced = <<>>
    /\ (syPc \in {"results", "done"}) => mapping # <<>>

---------------------------------------------------------------------------
(* Claims about the shape of the reconciled fields and their updates *)

\* the codes of the projects of a configuration that are in project_map
MappedCodes(config) ==
    {project_map[p] : p \in Range(config.project_ids) \cap DOMAIN project_map}

\* the target field the descriptor recorded under the key points to
TargetOf(key) == qase_target[mappings_custom_fields[key].qase_id]

\* the descriptor recorded under the key was created in this run
Created(key) ==
    mappings_custom_fields[key].qase_id
        \notin {qase_fields[i].id : i \in 1..Len(qase_fields)}

C17_MatchedEnumHasMapping ==
    \A key \in DOMAIN mappings_custom_fields :
        (/\ ~Created(key)
         /\ mappings_custom_fields[key].type_id \in {6, 12}
         /\ mappings_custom_fields[key].configs[1].items # <<>>)
        => mappings_custom_fields[key].has_tr_key_to_qase_id

\* the stripped labels of the source items that the value list lacks
MissingLabels(items, value) ==
    {Strip(items[i].title) : i \in 1..Len(items)}
        \ {Strip(value[i].title) : i \in 1..Len(value)}

\* C18: when an enum field matched a target field whose value list lacks
\* labels of the source items and the update call succeeded, the target's
\* value list is the old list followed by exactly the missing labels, with
\* new ids above every id the field had.
C18_MissingLabelsAppended ==
    \A key \in DOMAIN mappings_custom_fields :
        LET fd == mappings_custom_fields[key]
            before == lastUpdate.existing_field.value
            after == qase_target[fd.qase_id].value
            missing == MissingLabels(fd.configs[1].items, before)
        IN  (/\ ~Created(key)
             /\ fd.type_id \in {6, 12}
             /\ lastUpdate.called /\ lastUpdate.success
             /\ lastUpdate.existing_field.id = fd.qase_id
             /\ missing # {})
            => /\ IsPrefix(before, after)
               /\ {after[i].title : i \in (Len(before) + 1)..Len(after)} = missing
               /\ Len(after) = Len(before) + Cardinality(missing)
               /\ \A i \in (Len(before) + 1)..Len(after) :
                      \A j \in 1..Len(before) : after[i].id > before[j].id

---------------------------------------------------------------------------
(* Claims about the custom fields and steps of a case *)

\* the project the last case was prepared for
LastProject == CHOOSE p \in ProjectChoices : p.code = lastCase.code

\* the enum field of the last case carries a value that fails validation
\* against the field's items
InvalidEnumValue ==
    LET key == UsedFieldKey(lastCase, LastProject)
    IN  /\ key # <<"", "">>
        /\ mappings_custom_fields[key].type_id \in {6, 12}
        /\ ValidateCustomFieldValues(mappings_custom_fields[key],
                                     lastCase.value, LastProject) = <<>>

\* C20: when the enum field of a case carries a value that fails validation,
\* the case is still prepared for the page, and its custom_field map and its
\* steps are those of the same case without that field, whatever the order
\* of the case's fields.
C20_InvalidEnumValueOnlyOmitted ==
    (lastPayload.prepared /\ InvalidEnumValue) =>
        LET absent == [lastCase EXCEPT !.fields = SelectSeq(@, LAMBDA n : n # "f")]
            without == PreparedCase(absent, LastProject,
                                    CHOOSE now \in NowChoices : TRUE)
        IN  /\ lastPayload.custom_field = without.custom_field
            /\ lastPayload.steps = without.steps

---------------------------------------------------------------------------
(* Claims about the replacement of attachment references *)

\* the attachment ids thread t's own failover uploaded
FailedOverBy(t) == {uploads[n].id : n \in {m \in 1..Len(uploads) : uploads[m].by = t}}

\* C21: when replace_attachments has returned, every reference of the string
\* whose id was in attachments_map before the call, or was put there by a
\* successful failover of the call, is rewritten to an image, whether or not
\* another reference of the string could be resolved; every other token is
\* left as it was.
C21_ResolvableReferencesRewritten ==
    \A t \in DOMAIN rpPc :
        (rpPc[t] = "done" /\ job[t].kind = "string") =>
            \A n \in 1..Len(job[t].string) :
                LET tok == job[t].string[n]
                IN  IF tok.kind = "ref"
                       /\ tok.id \in map_before[t] \cup FailedOverBy(t)
                    THEN string[t][n].kind = "image" /\ string[t][n].id = tok.id
                    ELSE tok.kind # "ref" => string[t][n] = tok

\* C22: for an attachment id that was absent from attachments_map, at most
\* one upload is performed by the failovers of all threads, and the entry of
\* the map is the one the first failover wrote.
C22_OneFailoverPerAttachment ==
    \A n \in 1..Len(uploads) :
        /\ \A m \in 1..Len(uploads) : uploads[m].id = uploads[n].id => m = n
        /\ uploads[n].id \in DOMAIN mappings_attachments_map =>
               mappings_attachments_map[uploads[n].id].upload = n

---------------------------------------------------------------------------
(* Claims about the enumeration of the attachments *)

\* C23: once the loop has handled a page request that returned no data, no
\* further page request is submitted; when get_attachments_list has returned,
\* no request is pending and the list holds the records of the pages that
\* returned data.
C23_StopsAtFirstPageWithoutData ==
    /\ submitted_at_no_data # -1 => Len(fetched) = submitted_at_no_data
    /\ alPc = "done" =>
           /\ \A f \in DOMAIN fetch_results : fetch_results[f] # "pending"
           /\ Len(attachments) =
                  Cardinality({f \in DOMAIN fetch_results : fetch_results[f] = "records"})

\* C28: every page offset is requested at most once, and every attachment
\* record appears at most once in the list get_attachments_list builds.
C28_OffsetsRequestedOnce ==
    /\ \A i, j \in 1..Len(fetched) : fetched[i] = fetched[j] => i = j
    /\ \A i, j \in 1..Len(attachments) : attachments[i] = attachments[j] => i = j

---------------------------------------------------------------------------
(* Claims about the steps of a case *)

\* C24: for a prepared case that carries the step field with steps, the
\* emitted steps are the source steps that have an action or an expected
\* result after trimming, in the source order, with the positions 1..K; a
\* kept step with an empty action has the action 'No action'.
C24_StepsKeptInOrder ==
    (lastPayload.prepared
        /\ lastCase.steps # <<>>
        /\ \E n \in 1..Len(lastCase.fields) : lastCase.fields[n] = "steps_separated") =>
        LET kept == SelectSeq(lastCase.steps,
                        LAMBDA step : Strip(step.content) # <<>>
                                      \/ Strip(step.expected) # <<>>)
        IN  /\ Len(lastPayload.steps) = Len(kept)
            /\ \A i \in 1..Len(kept) :
                   /\ lastPayload.steps[i].position = i
                   /\ lastPayload.steps[i].action =
                          IF Strip(kept[i].content) = <<>> THEN <<"No action">>
                          ELSE format_links_as_markdown(Strip(kept[i].content))
                   /\ lastPayload.steps[i].expected_result =
                          format_links_as_markdown(Strip(kept[i].expected))

\* C29: the target ids _prepare_case stores in case_id_mapping for different
\* source cases are pairwise distinct.
C29_TargetCaseIdsDistinct ==
    \A a, b \in DOMAIN case_id_mapping :
        a # b => case_id_mapping[a] # case_id_mapping[b]


---------------------------------------------------------------------------
(* Claims about system enums and run results (SpecResults)                 *)

\* the input result behind the n-th posted entry
PostedFrom(i) == results[res[i].source]

\* C25: every step of a posted result's custom_step_results is emitted with
\* the status result_statuses[step.status_id] of the reconciler's map when
\* that is one of passed, failed, blocked, skipped, and with 'skipped'
\* otherwise.
C25_StepStatusesMapped ==
    \A i \in 1..Len(res) :
        LET steps_in == PostedFrom(i).custom_step_results
        IN  /\ Len(res[i].steps) = Len(steps_in)
            /\ \A k \in 1..Len(steps_in) :
                   LET id == steps_in[k].status_id
                       mapped == IF id \in DOMAIN mappings_result_statuses
                                 THEN mappings_result_statuses[id] ELSE "skipped"
                   IN  res[i].steps[k].status =
                           IF mapped \in {"passed", "failed", "blocked", "skipped"}
                           THEN mapped ELSE "skipped"

\* C26: every posted result starts at max(created_on - elapsed, run.created_on)
\* when the result has created_on and at run.created_on otherwise, so never
\* before the run was created; a result with status 3, or whose test is not
\* in cases_map, is not posted.
C26_StartTimeFlooredAndUntestedSkipped ==
    /\ \A i \in 1..Len(res) :
           LET tr_result == PostedFrom(i)
               started == tr_result.created_on - Elapsed(tr_result)
           IN  /\ res[i].has_start_time
               /\ res[i].start_time =
                      IF tr_result.created_on # 0
                      THEN (IF started > tr_run.created_on THEN started ELSE tr_run.created_on)
                      ELSE tr_run.created_on
               /\ res[i].start_time >= tr_run.created_on
    /\ \A n \in 1..Len(results) :
           (results[n].status_id = 3 \/ results[n].test_id \notin DOMAIN cases_map)
               => \A i \in 1..Len(res) : res[i].source # n

\* a run with a result posted at the floor, one posted above it, or one of
\* two results left out
C26_Witness ==
    /\ tr_run.version \in {1, 2}
    /\ Len(res) = 1 /\ Len(results) = 2
    /\ PostedFrom(1).created_on # 0
    /\ PostedFrom(1).created_on - Elapsed(PostedFrom(1)) < tr_run.created_on
    /\ res[1].start_time = tr_run.created_on

\* labels that differ in the case of their letters only
CaseClasses ==
    {{"Other", "OTHER", "other"}, {"Functional", "functional"}, {"Smoke"},
     {"High", "HIGH", "high"}, {"Low", "low"}, {"Medium", "medium"}, {"Critical"},
     {"Passed", "passed"}, {"Failed", "FAILED", "failed"}, {"Blocked", "blocked"},
     {"Retest", "retest"}, {"Custom", "custom"}}

SameLabel(a, b) == \E c \in CaseClasses : a \in c /\ b \in c

\* the options whose title is the label up to case
Matching(label, options) ==
    {i \in 1..Len(options) : SameLabel(label, options[i].title)}

\* the id of the first target priority titled 'high', 1 without one
HighPriority ==
    LET high == Matching("high", system_fields.priority)
    IN  IF high = {} THEN 1
        ELSE system_fields.priority[CHOOSE i \in high : \A j \in high : i <= j].id

\* the three maps and the values given to a case, with 'fallback' as the
\* priority of a source priority without a matching target label
EnumsMapped(fallback) ==
    /\ "types" \in maps_built =>
           \A n \in 1..Len(tr_types) :
               LET m == Matching(tr_types[n].name, system_fields.type)
                   to == mappings_types[tr_types[n].id]
               IN  IF m = {} THEN to = 1
                   ELSE \E i \in m : to = system_fields.type[i].id
    /\ "priorities" \in maps_built =>
           \A n \in 1..Len(tr_priorities) :
               LET m == Matching(tr_priorities[n].name, system_fields.priority)
                   to == mappings_priorities[tr_priorities[n].id]
               IN  IF m = {} THEN to = fallback
                   ELSE \E i \in m : to = system_fields.priority[i].id
    /\ "result_statuses" \in maps_built =>
           \A n \in 1..Len(tr_statuses) :
               LET m == Matching(tr_statuses[n].label, system_fields.result_status)
                   to == mappings_result_statuses[tr_statuses[n].id]
               IN  IF m = {} THEN to = "skipped"
                   ELSE \E i \in m : to = system_fields.result_status[i].slug
    /\ lastSet.called =>
           /\ lastSet.priority =
                  IF lastSet.priority_id \in DOMAIN mappings_priorities
                  THEN mappings_priorities[lastSet.priority_id] ELSE fallback
           /\ lastSet.type =
                  IF lastSet.type_id \in DOMAIN mappings_types
                  THEN mappings_types[lastSet.type_id] ELSE 1
    /\ \A i \in 1..Len(res) :
           PostedFrom(i).status_id \notin DOMAIN mappings_result_statuses
               => res[i].status = "skipped"

\* C27 (as amended): system enums are mapped by case-insensitive label
\* equality; a source id without a matching target label, seen by the
\* reconciler or absent from the maps when a case is imported, falls back to
\* type 1, result status 'skipped', and the priority that is the id of the
\* first target priority titled 'high' in any case, 1 when there is none.
C27_EnumsMappedHighFallback == EnumsMapped(HighPriority)

\* C27 (as stated): the fallback priority is 1.
C27_EnumsMappedFixedFallback == EnumsMapped(1)

\* a case whose priority and type are in no map, on a target whose 'high'
\* is priority 2, with source labels matched across case
C27_Witness ==
    /\ lastSet.called
    /\ lastSet.priority_id = 9 /\ lastSet.type_id = 9
    /\ HighPriority = 2
    /\ lastSet.priority = 2
    /\ mappings_priorities[1] = 1
    /\ mappings_result_statuses[5] \in {"failed", "skipped"}


---------------------------------------------------------------------------
(* Claims about the configuration behind a per-project field (SpecFields)  *)

\* the position of the configuration that lists the project with the code
ListedBy(code) ==
    CHOOSE c \in 1..Len(field.configs) : code \in MappedCodes(field.configs[c])

\* the labels prepare_custom_field_data creates values for: per key of the
\* items the stripped title of its last line
CreatedLabels(items) ==
    {Strip(items[i].title) : i \in {i \in 1..Len(items) :
                                       \A j \in (i + 1)..Len(items) :
                                           items[j].key # items[i].key}}

=============================================================================
